---- MODULE Spec2Model ----
(***************************************************************************)
(* Model of json-ui (src/index.js): a search page that queries a ranking   *)
(* API, decomposes the debug-explain response into a product map           *)
(* (allProducts) and flattened score records (allDetails), and builds card *)
(* decks with classified score lists and boost filter checkboxes.          *)
(*                                                                         *)
(* JavaScript strings that the code splits, joins or searches are modelled *)
(* as sequences of one-character strings.  The JavaScript value undefined  *)
(* is the marker Undefined (for strings) or the value U (for score values).*)
(***************************************************************************)
EXTENDS Integers, Sequences, FiniteSets, TLC

(* ------------------------------------------------------------------ *)
(* Bounds of the model                                                  *)
(* ------------------------------------------------------------------ *)
\* most nodes of one generated explanation tree
MaxNodes == 4
\* most item keys of one generated response
MaxKeys == 2
\* most documents of one generated response
MaxDocs == 2
\* most queries submitted in one behaviour of the page
MaxQueries == 3
\* most fragments joined into one generated description
MaxFragments == 2
\* most files of one listing of the json-files directory
MaxFiles == 2
\* how many times the sign-in form is submitted
MaxSignIns == 2

(* ------------------------------------------------------------------ *)
(* JavaScript strings and values                                        *)
(* ------------------------------------------------------------------ *)
\* undefined where a string is expected (a missing field, an index past the end)
Undefined == <<"undefined">>

\* a score value: a number, a string, or undefined
Num(n) == [t |-> "number", n |-> n, s |-> <<>>]
Str(s) == [t |-> "string", n |-> 0, s |-> s]
U == [t |-> "undefined", n |-> 0, s |-> <<>>]

sUndefinedText == <<"u","n","d","e","f","i","n","e","d">>

Digit(d) == <<"0","1","2","3","4","5","6","7","8","9">>[d + 1]

RECURSIVE NatToString(_)
\* decimal digits of a natural number
NatToString(n) == IF n < 10 THEN <<Digit(n)>>
                  ELSE NatToString(n \div 10) \o <<Digit(n % 10)>>

\* String(n) for an integer n
IntToString(n) == IF n < 0 THEN <<"-">> \o NatToString(0 - n) ELSE NatToString(n)

\* string conversion of a score value (template literal, textContent)
ValueToString(v) == CASE v.t = "number" -> IntToString(v.n)
                      [] v.t = "string" -> v.s
                      [] OTHER -> sUndefinedText

\* string conversion of a string-or-undefined
StringOf(s) == IF s = Undefined THEN sUndefinedText ELSE s

\* arr[i] of a JavaScript array (i counted from 1 here): undefined past the end
At(arr, i) == IF i \in 1..Len(arr) THEN arr[i] ELSE Undefined

\* String.prototype.indexOf from a position; 0 when the substring is absent
IndexOf(s, sub, from) ==
  LET C == {i \in from..(Len(s) - Len(sub) + 1) : SubSeq(s, i, i + Len(sub) - 1) = sub}
  IN IF C = {} THEN 0 ELSE CHOOSE i \in C : \A j \in C : i <= j

\* String.prototype.includes
Includes(s, sub) == IndexOf(s, sub, 1) # 0

RECURSIVE Split(_, _)
\* String.prototype.split with a non-empty separator
Split(s, sep) ==
  LET i == IndexOf(s, sep, 1)
  IN IF i = 0 THEN <<s>>
     ELSE <<SubSeq(s, 1, i - 1)>> \o Split(SubSeq(s, i + Len(sep), Len(s)), sep)

RECURSIVE Join(_, _)
\* Array.prototype.join of an array of strings
Join(parts, sep) ==
  IF Len(parts) = 0 THEN <<>>
  ELSE IF Len(parts) = 1 THEN parts[1]
  ELSE parts[1] \o sep \o Join(Tail(parts), sep)

IsDigit(c) == c \in {"0","1","2","3","4","5","6","7","8","9"}
DigitValue(c) == CHOOSE d \in 0..9 : Digit(d) = c

RECURSIVE ParseDigits(_, _)
ParseDigits(s, acc) ==
  IF Len(s) = 0 \/ ~IsDigit(s[1]) THEN acc
  ELSE ParseDigits(Tail(s), acc * 10 + DigitValue(s[1]))

\* NaN, the result of parseInt on text with no leading digits
NaN == -1

\* parseInt of a string-or-undefined holding no sign: the leading digits, else NaN
ParseInt(s) == IF s = Undefined \/ Len(s) = 0 \/ ~IsDigit(s[1]) THEN NaN
               ELSE ParseDigits(s, 0)

(* ------------------------------------------------------------------ *)
(* Text constants of the code                                           *)
(* ------------------------------------------------------------------ *)
sBoost == <<"b","o","o","s","t">>
sIdfComputedAs == <<"i","d","f",","," ","c","o","m","p","u","t","e","d"," ","a","s">>
sTfComputedAs == <<"t","f",","," ","c","o","m","p","u","t","e","d"," ","a","s">>
sWeight == <<"w","e","i","g","h","t">>
sMaxOf == <<"m","a","x"," ","o","f",":">>
sQuery == <<"q","u","e","r","y">>
sTrue == <<"t","r","u","e">>
sBoostInfix == <<"-","b","o","o","s","t","-">>
sCheckPrefix == <<"c","h","e","c","k","-">>
sIndentPrefix == <<"i","n","d","e","n","t","-">>
sScoreboost == <<"s","c","o","r","e","b","o","o","s","t">>
sScoreidf == <<"s","c","o","r","e","i","d","f">>
sScoretf == <<"s","c","o","r","e","t","f">>
sScoreweight == <<"s","c","o","r","e","w","e","i","g","h","t">>
sScoremax == <<"s","c","o","r","e","m","a","x">>
sScorequery == <<"s","c","o","r","e","q","u","e","r","y">>

(* ------------------------------------------------------------------ *)
(* Explanation trees and the flattener                                  *)
(* ------------------------------------------------------------------ *)
\* an explanation node; details = <<>> stands for an absent or empty details array
Node(d, v, ds) == [description |-> d, value |-> v, details |-> ds]

\* the key under which Object.keys lists element i of an array
ArrayKey(i) == <<"0","1","2","3","4","5","6","7","8","9">>[i]

RECURSIVE TraverseDetails(_, _)
RECURSIVE TraverseChildren(_, _, _)

\* a plausible slip: the call on the details array walks each element again
TraverseArrayRewalk(depth, short) ==
  LET RECURSIVE Walk(_)
      Walk(i) == IF i > Len(short) THEN <<>>
                 ELSE <<<<depth + 1, short[i].description, short[i].value>>>>
                      \o Walk(i + 1)
  IN Walk(1)

\* traverseDetails(depth, prodId, item["details"]): the keys of an array are
\* its indices, none of which is 'details', so no element is visited again
TraverseArray(depth, short) ==
  LET RECURSIVE Walk(_)
      Walk(i) == IF i > Len(short) THEN <<>>
                 ELSE (IF ArrayKey(i) = "details"
                       THEN <<<<depth + 1, short[i].description, short[i].value>>>>
                       ELSE <<>>)
                      \o Walk(i + 1)
  IN Walk(1)

\* the for loop over item["details"]: push the child's record, then recurse
TraverseChildren(depth, short, i) ==
  IF i > Len(short) THEN <<>>
  ELSE <<<<depth + 1, short[i].description, short[i].value>>>>
       \o TraverseDetails(depth + 1, short[i])
       \o TraverseChildren(depth, short, i + 1)

\* traverseDetails on a node: the records it pushes onto allDetails[prodId]
TraverseDetails(depth, item) ==
  IF item.details # <<>>
  THEN TraverseChildren(depth, item.details, 1) \o TraverseArray(depth, item.details)
  ELSE <<>>

(* ------------------------------------------------------------------ *)
(* decomposeSKU: the product map and the score details                  *)
(* ------------------------------------------------------------------ *)
\* a document of data.response.docs
Doc(pid, name, size, img, skus) ==
  [product_id |-> pid, product_displayName |-> name, sku_size |-> size,
   sku_skuImages |-> <<img>>, style_order_list |-> skus]

\* an entry of a document's style_order_list
StyleSku(sid, img) == [sku_id |-> sid, sku_skuImages |-> <<img>>]

\* the response body: data.debug.explain in key order, data.response.docs
Data(explain, docs) == [explain |-> explain, docs |-> docs]

\* the inner loop of setData over style_order_list
SkuImageOf(skuslist, skuId) ==
  LET C == {i \in 1..Len(skuslist) : skuslist[i].sku_id = skuId}
  IN IF C = {} THEN <<>>
     ELSE <<skuslist[CHOOSE i \in C : \A j \in C : i <= j].sku_skuImages[1]>>

\* a plausible slip: an unmatched product id falls back to the first document
SetDataFallback(data, productId, skuId) ==
  LET docs == data.docs
      C == {i \in 1..Len(docs) : docs[i].product_id = productId}
  IN IF docs = <<>> THEN [found |-> FALSE, array |-> <<>>]
     ELSE LET item == IF C = {} THEN docs[1]
                      ELSE docs[CHOOSE i \in C : \A j \in C : i <= j]
          IN [found |-> TRUE,
              array |-> <<item.product_displayName, item.sku_size, item.sku_skuImages[1]>>
                        \o SkuImageOf(item.style_order_list, skuId)]

\* setData: the array of the first document whose product_id is productId,
\* or nothing (undefined) when no document matches
SetData(data, productId, skuId) ==
  LET docs == data.docs
      C == {i \in 1..Len(docs) : docs[i].product_id = productId}
  IN IF C = {} THEN [found |-> FALSE, array |-> <<>>]
     ELSE LET item == docs[CHOOSE i \in C : \A j \in C : i <= j]
          IN [found |-> TRUE,
              array |-> <<item.product_displayName, item.sku_size, item.sku_skuImages[1]>>
                        \o SkuImageOf(item.style_order_list, skuId)]

\* array[3] of setData's result: the sku image, undefined without sku details
SkuImg(array) == IF Len(array) >= 4 THEN array[4] ELSE "undefined"

\* position of a product id in allProducts (0 when absent)
ProductIndex(products, prodId) ==
  LET C == {i \in 1..Len(products) : products[i].productId = prodId}
  IN IF C = {} THEN 0 ELSE CHOOSE i \in C : TRUE

\* position of a sku id in a product's skus (0 when absent)
SkuIndex(skus, skuId) ==
  LET C == {i \in 1..Len(skus) : skus[i].skuId = skuId}
  IN IF C = {} THEN 0 ELSE CHOOSE i \in C : TRUE

\* allProducts[prodId]['skus'][skuId] = {...}: overwrite in place or insert last
PutSku(skus, entry) ==
  LET i == SkuIndex(skus, entry.skuId)
  IN IF i = 0 THEN Append(skus, entry) ELSE [skus EXCEPT ![i] = entry]

\* a plausible slip: the product entry is built anew for every item
DecomposeItemRecreating(stores, data, e) ==
  LET item == e.key
      parts == Split(item, <<"_">>)
      skuId == At(parts, 1)
      prodId == At(parts, 2)
      r == SetData(data, prodId, skuId)
      p == ProductIndex(stores.products, prodId)
      fresh == [productId |-> prodId, displayName |-> r.array[1],
                size |-> r.array[2], prodImg |-> r.array[3],
                skus |-> <<[skuId |-> skuId, skuScore |-> e.node.value,
                            skuImg |-> SkuImg(r.array)]>>]
  IN IF ~r.found THEN stores
     ELSE [products |-> IF p # 0 THEN [stores.products EXCEPT ![p] = fresh]
                        ELSE Append(stores.products, fresh),
           details |-> (item :> (<<<<1, e.node.description, e.node.value>>>>
                                  \o TraverseDetails(1, e.node)))
                       @@ stores.details]

\* the stores after the body of the forEach ran on one item key
DecomposeItem(stores, data, e) ==
  LET item == e.key
      parts == Split(item, <<"_">>)
      skuId == At(parts, 1)
      prodId == At(parts, 2)
      value == e.node.value
      r == SetData(data, prodId, skuId)
      p == ProductIndex(stores.products, prodId)
      withProduct == IF p # 0 THEN stores.products
                     ELSE Append(stores.products,
                                 [productId |-> prodId, displayName |-> r.array[1],
                                  size |-> r.array[2], prodImg |-> r.array[3],
                                  skus |-> <<>>])
      q == IF p # 0 THEN p ELSE Len(withProduct)
      entry == [skuId |-> skuId, skuScore |-> value, skuImg |-> SkuImg(r.array)]
  IN IF ~r.found THEN stores
     ELSE [products |-> [withProduct EXCEPT ![q].skus = PutSku(@, entry)],
           details |-> (item :> (<<<<1, e.node.description, e.node.value>>>>
                                  \o TraverseDetails(1, e.node)))
                       @@ stores.details]

RECURSIVE DecomposeItemsUntilUnmatched(_, _, _)
\* a plausible slip: an unmatched item ends the loop, as an exception would
DecomposeItemsUntilUnmatched(stores, data, i) ==
  IF i > Len(data.explain) THEN stores
  ELSE IF ~SetData(data, At(Split(data.explain[i].key, <<"_">>), 2),
                   At(Split(data.explain[i].key, <<"_">>), 1)).found
  THEN stores
  ELSE DecomposeItemsUntilUnmatched(DecomposeItem(stores, data, data.explain[i]),
                                    data, i + 1)

RECURSIVE DecomposeItems(_, _, _)
\* Object.keys(skus).forEach from item key i on
DecomposeItems(stores, data, i) ==
  IF i > Len(data.explain) THEN stores
  ELSE DecomposeItems(DecomposeItem(stores, data, data.explain[i]), data, i + 1)

\* the empty stores: allProducts = {}, allDetails = {}
EmptyStores == [products |-> <<>>, details |-> <<>>]

\* a plausible slip: the stores are not reset before the loop
DecomposeSKUKeepingOld(old, data) == DecomposeItems(old, data, 1)

\* decomposeSKU(data) run when the stores hold old
DecomposeSKU(old, data) == DecomposeItems(EmptyStores, data, 1)

(* ------------------------------------------------------------------ *)
(* scoreList: the nested, classified score list of one card             *)
(* ------------------------------------------------------------------ *)
\* A <details> element of a score list: its classList, the text of its
\* description and value paragraphs, and its parent: the index of another
\* element, 0 for the list container, -1 while it is attached nowhere.
sContent == <<"c","o","n","t","e","n","t">>
sHidden == <<"h","i","d","d","e","n">>

\* textContent = x: undefined gives the empty text
DescText(d) == IF d = Undefined THEN <<>> ELSE d
ValueText(v) == IF v.t = "undefined" THEN <<>> ELSE ValueToString(v)

\* createScoreDetail(scoreDetail)
CreateScoreDetail(scoreDetail) ==
  [classList |-> <<sIndentPrefix \o IntToString(scoreDetail[1])>>,
   desc |-> DescText(scoreDetail[2]),
   val |-> ValueText(scoreDetail[3]),
   parent |-> -1]

\* classList.value of element p (0 is the container, class "content hidden")
ClassValue(drops, p) ==
  IF p = 0 THEN Join(<<sContent, sHidden>>, <<" ">>)
  ELSE Join(drops[p].classList, <<" ">>)

\* the last element of p.querySelectorAll('details'), -1 when there is none
RECURSIVE LastDetails(_, _)
LastDetails(drops, p) ==
  LET C == {j \in 1..Len(drops) : drops[j].parent = p}
  IN IF C = {} THEN -1
     ELSE LET c == CHOOSE j \in C : \A k \in C : k <= j
              d == LastDetails(drops, c)
          IN IF d = -1 THEN c ELSE d

\* parentNode of p: null (-1) above the container, which is attached nowhere
ParentNode(drops, p) == IF p = 0 THEN -1 ELSE drops[p].parent

\* the while loop of appendScoreDetail: the element the new one is appended
\* to, -1 when the loop ends without appending
RECURSIVE FindParent(_, _, _)
FindParent(drops, parent, indentLevel) ==
  IF parent = -1 THEN -1
  ELSE LET depth == ParseInt(At(Split(ClassValue(drops, parent), <<"-">>), 2))
       IN IF depth # NaN /\ depth < indentLevel - 1
          THEN FindParent(drops, LastDetails(drops, parent), indentLevel)
          ELSE IF depth # NaN /\ depth = indentLevel - 1
          THEN parent
          ELSE FindParent(drops, ParentNode(drops, parent), indentLevel)

\* appendScoreDetail: where the new element goes given the elements so far
AppendScoreDetail(drops, scoreDetail) ==
  LET indentLevel == ParseInt(IntToString(scoreDetail[1]))
      last == LastDetails(drops, 0)
  IN IF last # -1 THEN FindParent(drops, last, indentLevel) ELSE 0

\* a plausible slip: the outermost element carrying the class is taken
RECURSIVE ClosestOutermost(_, _)
ClosestOutermost(drops, i) ==
  IF i <= 0 THEN 0
  ELSE LET up == ClosestOutermost(drops, drops[i].parent)
       IN IF up # 0 THEN up
          ELSE IF \E k \in 1..Len(drops[i].classList) : drops[i].classList[k] = sScoreweight
          THEN i
          ELSE 0

\* drop.closest('details.scoreweight'): the element itself or its nearest
\* ancestor carrying the class, 0 when there is none
RECURSIVE Closest(_, _)
Closest(drops, i) ==
  IF i <= 0 THEN 0
  ELSE IF \E k \in 1..Len(drops[i].classList) : drops[i].classList[k] = sScoreweight
  THEN i
  ELSE Closest(drops, drops[i].parent)

\* the name getBoostName derives from the description of the weight element
BoostNameOf(name) ==
  LET boostName == At(Split(Split(name, <<" ">>)[1], <<":">>), 2)
  IN IF boostName = Undefined THEN Undefined
     ELSE IF Len(boostName) > 0 /\ boostName[1] = "\""
     THEN Join(Split(At(Split(name, <<"\"">>), 2), <<" ">>), <<"-">>)
     ELSE IF boostName = sTrue
     THEN At(Split(Split(name, <<":">>)[1], <<"_">>), 2)
     ELSE boostName

\* getBoostName(drop); errors are caught inside and give undefined
GetBoostName(drops, i) ==
  LET context == Closest(drops, i)
  IN IF context = 0 THEN Undefined ELSE BoostNameOf(drops[context].desc)

\* classList.add(token) on a class list
ClassListAdd(classList, token) ==
  IF \E k \in 1..Len(classList) : classList[k] = token THEN classList
  ELSE Append(classList, token)

\* classList.add throws on an empty token or one containing a space
BadToken(token) == token = <<>> \/ Includes(token, <<" ">>)

\* sidebarOption(boost): the ids of the checkboxes of #checklist; id() looks
\* the id up in the whole document, where ids holds the ids of the sections
\* of #items
SidebarOption(checklist, ids, boost) ==
  IF \/ \E k \in 1..Len(checklist) : checklist[k] = sCheckPrefix \o boost
     \/ (sCheckPrefix \o boost) \in ids
  THEN checklist
  ELSE Append(checklist, sCheckPrefix \o boost)

\* a plausible slip: the weight test comes before the idf and tf tests
RoleClassWeightFirst(description) ==
  LET baseDescription == Split(description, <<"(">>)[1]
  IN IF baseDescription = sWeight THEN <<sScoreweight>>
     ELSE IF Includes(description, sIdfComputedAs) THEN <<sScoreidf>>
     ELSE IF Includes(description, sTfComputedAs) THEN <<sScoretf>>
     ELSE IF baseDescription = sMaxOf THEN <<sScoremax>>
     ELSE IF baseDescription = sQuery THEN <<sScorequery>>
     ELSE <<>>

\* the else-if chain of addBoostClass after the boost test, on a string:
\* the class added to the element, if any
RoleClass(description) ==
  IF Includes(description, sIdfComputedAs) THEN <<sScoreidf>>
  ELSE IF Includes(description, sTfComputedAs) THEN <<sScoretf>>
  ELSE LET baseDescription == Split(description, <<"(">>)[1]
       IN IF baseDescription = sWeight THEN <<sScoreweight>>
          ELSE IF baseDescription = sMaxOf THEN <<sScoremax>>
          ELSE IF baseDescription = sQuery THEN <<sScorequery>>
          ELSE <<>>

\* addBoostClass(card, scoreDetail, drop) with drop = element i of st.drops;
\* st holds the elements, the classList of the card and of its container, the
\* checklist, the ids of the sections, and whether an exception was thrown
AddBoostClass(st, scoreDetail, i) ==
  LET description == scoreDetail[2]
  IN IF description = sBoost
     THEN LET boostName == GetBoostName(st.drops, i)
              boostClass == StringOf(boostName) \o sBoostInfix
                            \o ValueToString(scoreDetail[3])
          IN IF BadToken(boostClass) THEN [st EXCEPT !.threw = TRUE]
             ELSE [st EXCEPT !.card = ClassListAdd(@, boostClass),
                             !.cont = ClassListAdd(@, boostClass),
                             !.checklist = SidebarOption(@, st.ids, boostClass),
                             !.drops[i].classList = ClassListAdd(@, sScoreboost)]
     ELSE IF description = Undefined
     THEN [st EXCEPT !.threw = TRUE]
     ELSE LET cls == RoleClass(description)
          IN IF cls = <<>> THEN st
             ELSE [st EXCEPT !.drops[i].classList = ClassListAdd(@, cls[1])]

\* the for loop of scoreList from record k on; it stops at an exception
RECURSIVE ScoreListLoop(_, _, _)
ScoreListLoop(st, item, k) ==
  IF k > Len(item) \/ st.threw THEN st
  ELSE LET drop == CreateScoreDetail(item[k])
           parent == AppendScoreDetail(st.drops, item[k])
           i == Len(st.drops) + 1
           appended == [st EXCEPT !.drops = Append(@, [drop EXCEPT !.parent = parent])]
       IN ScoreListLoop(AddBoostClass(appended, item[k], i), item, k + 1)

\* a plausible slip: the summary is asked for before the last record of the
\* item was appended and classified
ScoreListUnfinished(details, itemId, card, cont, checklist, ids) ==
  LET item == IF itemId \in DOMAIN details THEN details[itemId] ELSE <<>>
  IN ScoreListLoop([drops |-> <<>>, card |-> card, cont |-> cont,
                    checklist |-> checklist, ids |-> ids, threw |-> FALSE],
                   SubSeq(item, 1, Len(item) - 1), 1)

\* scoreList(itemId, card): allDetails[itemId] may be undefined, and then the
\* for-in loop has nothing to run over
ScoreList(details, itemId, card, cont, checklist, ids) ==
  LET item == IF itemId \in DOMAIN details THEN details[itemId] ELSE <<>>
  IN ScoreListLoop([drops |-> <<>>, card |-> card, cont |-> cont,
                    checklist |-> checklist, ids |-> ids, threw |-> FALSE], item, 1)

(* ------------------------------------------------------------------ *)
(* scoreSummary: the formula and the explanation blocks of one card     *)
(* ------------------------------------------------------------------ *)
sProductOf == <<"p","r","o","d","u","c","t"," ","o","f">>
sSumOf == <<"s","u","m"," ","o","f">>
sMax == <<"m","a","x">>
sEquals == <<" ","="," ">>
sTimes == <<"*">>
sPlus == <<"+">>
sAmpersand == <<"&">>
sOpenParen == <<"(">>
sCloseParen == <<")">>
sOpenParenPlus == <<"(", " ", "+", " ">>
sSpaceCloseParen == <<" ", ")">>
sSpaceBracket == <<" ", "[">>

\* String.prototype.replace with a string pattern: the first occurrence only
Replace(s, pat, rep) ==
  LET i == IndexOf(s, pat, 1)
  IN IF i = 0 THEN s
     ELSE SubSeq(s, 1, i - 1) \o rep \o SubSeq(s, i + Len(pat), Len(s))

RECURSIVE Ascending(_)
\* the elements of a set of indices in document order
Ascending(S) ==
  IF S = {} THEN <<>>
  ELSE LET m == CHOOSE x \in S : \A y \in S : x <= y
       IN <<m>> \o Ascending(S \ {m})

\* the <details> children of element p (0 is the list container), first first
ChildrenOf(drops, p) == Ascending({j \in 1..Len(drops) : drops[j].parent = p})

RECURSIVE IsUnder(_, _, _)
\* element j is a descendant of element m
IsUnder(drops, j, m) ==
  IF j <= 0 THEN FALSE
  ELSE drops[j].parent = m \/ IsUnder(drops, drops[j].parent, m)

\* classList.contains
HasClass(drop, c) == \E k \in 1..Len(drop.classList) : drop.classList[k] = c

\* m.querySelectorAll('.' + c): the descendants of m carrying the class
QuerySelectorAll(drops, m, c) ==
  Ascending({j \in 1..Len(drops) : IsUnder(drops, j, m) /\ HasClass(drops[j], c)})

RECURSIVE ScoreFormula(_, _, _)
RECURSIVE ScoreFormulaLoop(_, _, _, _)

\* the body of the for loop of scoreFormula on component c: the tokens pushed
ScoreFormulaComponent(drops, c, type) ==
  IF Includes(drops[c].desc, sProductOf)
  THEN ScoreFormula(drops, c, sTimes)
  ELSE IF Includes(drops[c].desc, sSumOf)
  THEN <<sOpenParen>> \o ScoreFormula(drops, c, sPlus) \o <<sCloseParen>>
  ELSE IF Includes(drops[c].desc, sWeight) /\ Len(drops[c].desc) > 100
  THEN <<drops[c].val, type>> \o ScoreFormula(drops, c, sAmpersand)
  ELSE <<type, drops[c].val>>

ScoreFormulaLoop(drops, components, type, i) ==
  IF i > Len(components) THEN <<>>
  ELSE ScoreFormulaComponent(drops, components[i], type)
       \o ScoreFormulaLoop(drops, components, type, i + 1)

\* scoreFormula(list, type) with list = element p: the nested array it
\* returns, flattened as formula.flat(Infinity) does
ScoreFormula(drops, p, type) == ScoreFormulaLoop(drops, ChildrenOf(drops, p), type, 1)

\* the two replace calls of scoreFormulaFormat
NormalizeParens(formula) ==
  Replace(Replace(formula, sOpenParenPlus, sOpenParen), sSpaceCloseParen, sCloseParen)

\* scoreFormulaFormat(formula) on the flattened array
ScoreFormulaFormat(formula) == NormalizeParens(Join(formula, <<" ">>))

sQueryConstant == <<"Q","u","e","r","y"," ","c","o","n","s","t","a","n","t">>

\* querySelector: the first element of a querySelectorAll result, 0 for null
FirstOf(found) == IF found = <<>> THEN 0 ELSE found[1]

\* a plausible slip: the element itself is taken, not a copy of it
CloneNodeShared(drops, w) == [drops |-> drops, node |-> w]

\* w.cloneNode(true): the elements with a detached copy of w and of its
\* descendants behind them, and the index of the copy of w
CloneNode(drops, w) ==
  LET sub == Ascending({j \in 1..Len(drops) : j = w \/ IsUnder(drops, j, w)})
      pos(j) == CHOOSE i \in 1..Len(sub) : sub[i] = j
  IN [drops |-> drops \o [i \in 1..Len(sub) |->
                            [drops[sub[i]] EXCEPT
                               !.parent = IF i = 1 THEN -1
                                          ELSE Len(drops) + pos(drops[sub[i]].parent)]],
      node |-> Len(drops) + 1]

\* createIdfDetail(idf, category, term) throws a TypeError: idf is null, or
\* an idf (each summand of an idf that is a sum) has fewer than two children
CreateIdfDetailThrows(drops, idf) ==
  \/ idf = 0
  \/ /\ idf # 0
     /\ IF ~Includes(drops[idf].desc, sSumOf)
        THEN Len(ChildrenOf(drops, idf)) < 2
        ELSE \E c \in 1..Len(drops) :
               drops[c].parent = idf /\ Len(ChildrenOf(drops, c)) < 2

\* createTfDetail(tf, category, term) throws a TypeError: tf is null or has
\* fewer than five children
CreateTfDetailThrows(drops, tf) ==
  tf = 0 \/ Len(ChildrenOf(drops, tf)) < 5

\* what scoreSummary holds: the elements (the list first, then the copies),
\* the blocks appended to the div, and whether an exception was thrown
Thrown(sm) == [sm EXCEPT !.threw = TRUE]

\* the end of scoreRewrite(node): the boost, idf and tf elements found, the
\* heading moved out of node into the new element, the block for weight w
RewriteParts(sm, w, node, boost, idf, tf) ==
  IF CreateIdfDetailThrows(sm.drops, idf) \/ CreateTfDetailThrows(sm.drops, tf)
  THEN Thrown(sm)
  ELSE [sm EXCEPT
          !.drops = [@ EXCEPT ![node].desc = <<>>, ![node].val = <<>>],
          !.blocks = Append(@, [weight |-> w,
                                desc |-> sm.drops[node].desc,
                                boost |-> IF boost = 0 THEN <<>>
                                          ELSE <<sm.drops[boost].val>>,
                                idf |-> sm.drops[idf].val,
                                tf |-> sm.drops[tf].val])]

\* scoreRewrite(node) for the copy node of weight w: category[1] of a heading
\* without ':' and childNodes[1] of a node without children are undefined,
\* and reading from them throws
ScoreRewrite(sm, w, node) ==
  LET first == FirstOf(ChildrenOf(sm.drops, node))
  IN IF Len(Split(sm.drops[node].desc, <<":">>)) < 2 \/ first = 0
     THEN Thrown(sm)
     ELSE RewriteParts(sm, w, node,
                       FirstOf(QuerySelectorAll(sm.drops, node, sScoreboost)),
                       FirstOf(QuerySelectorAll(sm.drops, first, sScoreidf)),
                       FirstOf(QuerySelectorAll(sm.drops, first, sScoretf)))

\* the description of the copy cut at ' [', then scoreRewrite(copy)
RewriteCopy(sm, w, cl) ==
  ScoreRewrite([sm EXCEPT !.drops = [cl.drops EXCEPT ![cl.node].desc =
                                       Split(@, sSpaceBracket)[1]]],
               w, cl.node)

\* let copy = weight.cloneNode(true) ... div.append(scoreRewrite(copy))
AppendRewrite(sm, w) == RewriteCopy(sm, w, CloneNode(sm.drops, w))

RECURSIVE MaxWeightsLoop(_, _, _, _)
\* weights.forEach of one maxElement: the weights whose value is the target
MaxWeightsLoop(sm, target, weights, i) ==
  IF i > Len(weights) \/ sm.threw THEN sm
  ELSE MaxWeightsLoop(IF sm.drops[weights[i]].val = target
                      THEN AppendRewrite(sm, weights[i]) ELSE sm,
                      target, weights, i + 1)

RECURSIVE MaxLoop(_, _, _)
\* max.forEach
MaxLoop(sm, max, i) ==
  IF i > Len(max) \/ sm.threw THEN sm
  ELSE MaxLoop(MaxWeightsLoop(sm, sm.drops[max[i]].val,
                              QuerySelectorAll(sm.drops, max[i], sScoreweight), 1),
               max, i + 1)

\* weight.classList.value.split('-')[1][0]
IndentChar(drops, w) == At(Split(ClassValue(drops, w), <<"-">>), 2)[1]

\* parent.childNodes[0].childNodes[0].textContent.split(' ')[0]: of the list
\* container the first child is the first root element
ParentText(drops, w) ==
  LET p == IF drops[w].parent = 0 THEN FirstOf(ChildrenOf(drops, 0))
           ELSE drops[w].parent
  IN Split(drops[p].desc \o drops[p].val, <<" ">>)[1]

RECURSIVE OuterWeightsLoop(_, _, _)
\* outerWeights.forEach: the weights not at indent 1 and not under a max
OuterWeightsLoop(sm, outerWeights, i) ==
  IF i > Len(outerWeights) \/ sm.threw THEN sm
  ELSE OuterWeightsLoop(IF /\ IndentChar(sm.drops, outerWeights[i]) # "1"
                           /\ ParentText(sm.drops, outerWeights[i]) # sMax
                        THEN AppendRewrite(sm, outerWeights[i]) ELSE sm,
                        outerWeights, i + 1)

\* the copy of the query element, its description replaced
QueryCopy(sm, cl) ==
  [sm EXCEPT !.drops = [cl.drops EXCEPT ![cl.node].desc = sQueryConstant],
             !.query = <<cl.drops[cl.node].val>>]

\* let query = list.querySelector('.scorequery'); if (query) {...}
AppendQuery(sm, query) ==
  IF sm.threw \/ query = 0 THEN sm ELSE QueryCopy(sm, CloneNode(sm.drops, query))

\* the check for the query constant multiplier
SummaryQuery(sm) ==
  AppendQuery(sm, FirstOf(QuerySelectorAll(sm.drops, 0, sScorequery)))

\* the weights of the second loop are collected after the first has run
SummaryOuterWeights(sm) ==
  SummaryQuery(OuterWeightsLoop(sm, QuerySelectorAll(sm.drops, 0, sScoreweight), 1))

\* what is left after scoreSummary ran on the elements of a list: the list,
\* the text of the calculation paragraph, the blocks and the query copy
SummaryOf(list, sm) ==
  [threw |-> sm.threw, list |-> SubSeq(sm.drops, 1, Len(list)),
   formula |-> ScoreFormulaFormat(ScoreFormula(list, 0, sEquals)),
   blocks |-> sm.blocks, query |-> sm.query]

\* scoreSummary(list)
ScoreSummary(list) ==
  SummaryOf(list,
            SummaryOuterWeights(MaxLoop([drops |-> list, blocks |-> <<>>, query |-> <<>>,
                                    threw |-> FALSE],
                                   QuerySelectorAll(list, 0, sScoremax), 1)))

(* ------------------------------------------------------------------ *)
(* buildInterface: the card decks of #items and the boost checklist     *)
(* ------------------------------------------------------------------ *)
sProductContainer == <<"p","r","o","d","u","c","t","-","c","o","n","t","a","i","n","e","r">>
sProductCard == <<"p","r","o","d","u","c","t","-","c","a","r","d">>
sTitleCard == <<"t","i","t","l","e","-","c","a","r","d">>

\* The page under #items: a sequence of query sections; a section has its
\* id, its loading div and its product containers in order; a container
\* has its classList and its cards, first child first, and the classLists of
\* the spacer before it and the spacer after it.

\* addHeader(search)
AddHeader(items, search) ==
  Append(items, [id |-> search, load |-> TRUE, containers |-> <<>>])

\* id(search): the first element of the document with that id, 0 for null
GetElementById(items, search) ==
  LET C == {i \in 1..Len(items) : items[i].id = search}
  IN IF C = {} THEN 0 ELSE CHOOSE i \in C : \A j \in C : i <= j

\* qs(`#${search} .${productId}`): the first container in document order that
\* carries the class and lies in a section with the id; <<0, 0>> for null
QuerySelector(items, search, productId) ==
  LET C == {sc \in UNION {{<<i, j>> : j \in 1..Len(items[i].containers)} :
                          i \in 1..Len(items)} :
              /\ items[sc[1]].id = search
              /\ \E k \in 1..Len(items[sc[1]].containers[sc[2]].classList) :
                    items[sc[1]].containers[sc[2]].classList[k] = productId}
  IN IF C = {} THEN <<0, 0>>
     ELSE CHOOSE sc \in C : \A o \in C :
            sc[1] < o[1] \/ (sc[1] = o[1] /\ sc[2] <= o[2])

\* addProductSection(product, search); a null parent throws and is caught
AddProductSection(items, product, search) ==
  LET parent == GetElementById(items, search)
  IN IF parent = 0 THEN items
     ELSE [items EXCEPT ![parent].containers =
             Append(@, [classList |-> <<product.productId, sProductContainer>>,
                        cards |-> <<>>,
                        previousSibling |-> <<>>, nextSibling |-> <<>>])]

\* what addCard has of the summary when scoreList threw before scoreSummary
NoSummary == [threw |-> TRUE, list |-> <<>>, formula |-> <<>>, blocks |-> <<>>,
              query |-> <<>>]

\* container.prepend(card) and what addCard puts on the card of item
\* productId in the container at: r is what scoreList left of the list, the
\* card, the container and the checklist, s what scoreSummary returned. An
\* exception of either is caught at the end of addCard, after the card was
\* prepended and before the photo and the contents are appended to it.
PrependCard(pg, at, productId, skuData, r, s) ==
  LET cont == pg.items[at[1]].containers[at[2]]
      card == [title |-> FALSE, itemId |-> productId, classList |-> r.card,
               threw |-> r.threw \/ s.threw,
               contents |-> ~(r.threw \/ s.threw),
               score |-> IF r.threw \/ s.threw THEN <<>>
                         ELSE ValueToString(skuData.skuScore),
               drops |-> IF r.threw THEN r.drops ELSE s.list,
               formula |-> IF r.threw \/ s.threw THEN <<>> ELSE s.formula,
               blocks |-> IF r.threw \/ s.threw THEN <<>> ELSE s.blocks,
               query |-> IF r.threw \/ s.threw THEN <<>> ELSE s.query,
               max |-> 0, count |-> 0]
  IN [items |-> [pg.items EXCEPT ![at[1]].containers[at[2]] =
                   [cont EXCEPT !.classList = r.cont, !.cards = <<card>> \o @]],
      checklist |-> r.checklist]

\* let scores = scoreList(productId, card); const summary = scoreSummary(scores)
SummariseCard(pg, at, productId, skuData, r) ==
  PrependCard(pg, at, productId, skuData, r,
              IF r.threw THEN NoSummary ELSE ScoreSummary(r.drops))

\* addCard(data, value, skuData, sku, search, number) on the page pg, which
\* holds items and checklist; a null container throws and is caught
AddCard(pg, details, data, skuData, search) ==
  LET at == QuerySelector(pg.items, search, data.productId)
      productId == skuData.skuId \o <<"_">> \o data.productId
      cont == pg.items[at[1]].containers[at[2]]
  IN IF at = <<0, 0>> THEN pg
     ELSE SummariseCard(pg, at, productId, skuData,
                        ScoreList(details, productId, <<sProductCard>>,
                                  cont.classList, pg.checklist,
                                  {pg.items[i].id : i \in 1..Len(pg.items)}))

\* current > maxScore with current = parseFloat(sku['skuScore']): false when
\* the score is not a number
ScoreExceeds(skuScore, maxScore) ==
  CASE skuScore.t = "number" -> skuScore.n > maxScore
    [] skuScore.t = "string" -> ParseInt(skuScore.s) # NaN /\ ParseInt(skuScore.s) > maxScore
    [] OTHER -> FALSE

\* parseFloat(sku['skuScore']); NaN for a score that is no number
ParseFloat(skuScore) ==
  IF skuScore.t = "number" THEN skuScore.n ELSE ParseInt(skuScore.s)

RECURSIVE ProductScoresLoop(_, _, _)
\* the for loop of productScores from sku i on
ProductScoresLoop(product, i, acc) ==
  IF i > Len(product) THEN acc
  ELSE ProductScoresLoop(product, i + 1,
         [skuCount |-> acc.skuCount + 1,
          maxScore |-> IF ScoreExceeds(product[i].skuScore, acc.maxScore)
                       THEN ParseFloat(product[i].skuScore) ELSE acc.maxScore])

\* productScores(product): skuCount and maxScore both start at 0
ProductScores(product) == ProductScoresLoop(product, 1, [skuCount |-> 0, maxScore |-> 0])

\* the title card with the aggregate scores of the skus
TitleCard(product, scores) ==
  [title |-> TRUE, itemId |-> product.productId,
   classList |-> <<sProductCard, sTitleCard>>, threw |-> FALSE, contents |-> TRUE,
   score |-> <<>>, drops |-> <<>>, formula |-> <<>>, blocks |-> <<>>, query |-> <<>>,
   max |-> scores.maxScore, count |-> scores.skuCount]

\* addProductCard(data, productId, displayName, image, search)
AddProductCard(pg, product, search) ==
  LET at == QuerySelector(pg.items, search, product.productId)
  IN IF at = <<0, 0>> THEN pg
     ELSE [pg EXCEPT !.items[at[1]].containers[at[2]].cards =
             <<TitleCard(product, ProductScores(product.skus))>> \o @]

RECURSIVE AddCards(_, _, _, _, _)
\* the inner for loop of buildInterface over the skus of a product
AddCards(pg, details, product, search, k) ==
  IF k > Len(product.skus) THEN pg
  ELSE AddCards(AddCard(pg, details, product, product.skus[k], search),
                details, product, search, k + 1)

RECURSIVE AddDecks(_, _, _, _, _)
\* the outer for loop of buildInterface over Object.values(allProducts)
AddDecks(pg, products, details, search, p) ==
  IF p > Len(products) THEN pg
  ELSE LET sectioned == [pg EXCEPT !.items = AddProductSection(@, products[p], search)]
           carded == AddCards(sectioned, details, products[p], search, 1)
       IN AddDecks(AddProductCard(carded, products[p], search),
                   products, details, search, p + 1)

\* buildInterface(): #checklist is emptied, #items is not
BuildInterface(items, products, details, searchbarValue) ==
  LET search == Join(Split(searchbarValue, <<" ">>), <<"-">>)
  IN AddDecks([items |-> AddHeader(items, search), checklist |-> <<>>],
              products, details, search, 1)

\* qs('#items .load-items').remove() at the end of loadPage
RemoveLoad(items) ==
  LET C == {i \in 1..Len(items) : items[i].load}
  IN IF C = {} THEN items
     ELSE [items EXCEPT ![CHOOSE i \in C : \A j \in C : i <= j].load = FALSE]

(* ------------------------------------------------------------------ *)
(* Inputs: explanation trees, item keys, documents, responses           *)
(* ------------------------------------------------------------------ *)
dSumOf == <<"s","u","m"," ","o","f",":">>
dWeightColor == <<"w","e","i","g","h","t","(","f","i","e","l","d","_","c","o","l","o","r",":","t","r","u","e"," ","i","n"," ","1",")">>
dWeightName == <<"w","e","i","g","h","t","(","n","a","m","e",":","p","a","n","t"," ","i","n"," ","2",")">>
dWeightQuoted == <<"w","e","i","g","h","t","(","n","a","m","e",":","\"","a"," ","b","\""," ","i","n"," ","3",")">>
dWeightNoField == <<"w","e","i","g","h","t","(","F","u","n","c","t","i","o","n","S","c","o","r","e","Q","u","e","r","y",")">>
dIdf == <<"i","d","f",","," ","c","o","m","p","u","t","e","d"," ","a","s"," ","l","o","g"," ","f","r","o","m",":">>

\* the description and value of the nodes of the generated trees; the last
\* label is a node without description
Labels == {<<dSumOf, Num(10)>>, <<dWeightColor, Num(6)>>, <<dWeightName, Num(4)>>,
           <<sBoost, Str(sTrue)>>, <<Undefined, Num(1)>>}

RECURSIVE TreesOfSize(_)
RECURSIVE ForestsOfSize(_)
RECURSIVE ForestsFrom(_, _)
\* the explanation trees of exactly n nodes over Labels
TreesOfSize(n) ==
  IF n < 1 THEN {}
  ELSE {Node(l[1], l[2], f) : l \in Labels, f \in ForestsOfSize(n - 1)}

\* the sequences of trees of m nodes in all
ForestsOfSize(m) == IF m = 0 THEN {<<>>} ELSE ForestsFrom(m, 1)

\* the forests of m nodes whose first tree has at least k nodes
ForestsFrom(m, k) ==
  IF k > m THEN {}
  ELSE {<<t>> \o f : t \in TreesOfSize(k), f \in ForestsOfSize(m - k)}
       \cup ForestsFrom(m, k + 1)


\* pieces of description text, joined to make descriptions that meet several
\* rules of the classifier at once
Fragments == {<<>>, sBoost, sIdfComputedAs, sTfComputedAs, sWeight, sMaxOf, sQuery,
              sWeight \o <<"(">>, sMaxOf \o <<"(">>, sQuery \o <<"(">>, <<"x">>}

RECURSIVE FragmentTexts(_)
FragmentTexts(n) ==
  IF n = 0 THEN {<<>>}
  ELSE {a \o b : a \in Fragments, b \in FragmentTexts(n - 1)}

\* hand-written trees: a value missing, a quoted term, a weight without field,
\* a boost under no weight, a boost of a numeric value under two weights
ExtraTrees ==
  { Node(dSumOf, Num(10), <<Node(dIdf, U, <<>>), Node(dWeightName, Num(4), <<>>)>>),
    Node(dWeightQuoted, Num(3), <<Node(sBoost, Num(2), <<>>)>>),
    Node(dWeightNoField, Num(3), <<Node(sBoost, Num(2), <<>>)>>),
    Node(dSumOf, Num(3), <<Node(sBoost, Num(2), <<>>)>>),
    Node(dWeightColor, Num(12),
         <<Node(dSumOf, Num(12), <<Node(sBoost, Num(12), <<>>)>>),
           Node(dWeightName, Num(4), <<Node(sBoost, Num(3), <<>>)>>)>>) }

\* descriptions of the formula and summary inputs
dProductOf == <<"p","r","o","d","u","c","t"," ","o","f",":">>
dX == <<"x">>
dY == <<"y">>
dWeightColorOf == <<"w","e","i","g","h","t","(","f","i","e","l","d","_","c","o","l","o","r",":","t","r","u","e"," ","i","n"," ","1",")"," ","[","S","]",","," ","r","e","s","u","l","t"," ","o","f",":">>
dWeightNameOf == <<"w","e","i","g","h","t","(","n","a","m","e",":","p","a","n","t"," ","i","n"," ","2",")"," ","[","S","]",","," ","r","e","s","u","l","t"," ","o","f",":">>
dWeightFieldX == <<"w","e","i","g","h","t","(","f","i","e","l","d",":","x",")">>
dWeightFieldY == <<"w","e","i","g","h","t","(","f","i","e","l","d",":","y",")">>
dScore == <<"s","c","o","r","e","(","f","r","e","q","=","1",")",","," ","c","o","m","p","u","t","e","d"," ","f","r","o","m",":">>
dTf == <<"t","f",","," ","c","o","m","p","u","t","e","d"," ","a","s"," ","f","r","e","q"," ","f","r","o","m",":">>
dSmallN == <<"n">>
dBigN == <<"N">>
dFreq == <<"f","r","e","q">>
dK1 == <<"k","1">>
dB == <<"b">>
dDl == <<"d","l">>
dAvgdl == <<"a","v","g","d","l">>

\* a weight description of more than 100 characters
dWeightLong == sWeight \o <<"(">> \o [i \in 1..100 |-> "x"] \o <<")">>

\* most nodes of one generated formula tree
MaxFormulaNodes == 4

\* the description and value of the nodes of the generated formula trees
FormulaLabels == {<<dProductOf, Num(6)>>, <<dSumOf, Num(5)>>, <<dX, Num(2)>>, <<dY, Num(3)>>}

RECURSIVE FormulaTreesOfSize(_)
RECURSIVE FormulaForestsOfSize(_)
RECURSIVE FormulaForestsFrom(_, _)
\* the trees of exactly n nodes over FormulaLabels
FormulaTreesOfSize(n) ==
  IF n < 1 THEN {}
  ELSE {Node(l[1], l[2], f) : l \in FormulaLabels, f \in FormulaForestsOfSize(n - 1)}

FormulaForestsOfSize(m) == IF m = 0 THEN {<<>>} ELSE FormulaForestsFrom(m, 1)

\* the forests of m nodes whose first tree has at least k nodes
FormulaForestsFrom(m, k) ==
  IF k > m THEN {}
  ELSE {<<t>> \o f : t \in FormulaTreesOfSize(k), f \in FormulaForestsOfSize(m - k)}
       \cup FormulaForestsFrom(m, k + 1)


\* an idf with its two counts, a tf with its five sub-values, a tf with one
IdfNode == Node(dIdf, Num(2), <<Node(dSmallN, Num(1), <<>>), Node(dBigN, Num(9), <<>>)>>)
TfNode == Node(dTf, Num(3), <<Node(dFreq, Num(1), <<>>), Node(dK1, Num(1), <<>>),
                              Node(dB, Num(0), <<>>), Node(dDl, Num(4), <<>>),
                              Node(dAvgdl, Num(5), <<>>)>>)
TfShort == Node(dTf, Num(3), <<Node(dFreq, Num(1), <<>>)>>)

\* a weight as the API explains it: its score node holds boost, idf and tf
FullWeight(d, v, boost) ==
  Node(d, Num(v), <<Node(dScore, Num(v), <<Node(sBoost, boost, <<>>), IdfNode, TfNode>>)>>)

\* a weight whose tf lacks sub-values, and one that has no tf
WeightShortTf(d, v) ==
  Node(d, Num(v), <<Node(dScore, Num(v), <<IdfNode, TfShort>>)>>)
WeightNoTf(d, v) ==
  Node(d, Num(v), <<Node(dScore, Num(v), <<IdfNode>>)>>)

\* hand-written trees for the summary: two weights under a sum, a weight at
\* the root, two weights under a max, a weight deeper under a max, a query
\* constant, weights with a broken tf beside a sound weight, leaf weights
\* under a sum, a long leaf weight, two sums under a product
SummaryTrees ==
  { Node(dSumOf, Num(10), <<FullWeight(dWeightColorOf, 6, Str(sTrue)),
                            FullWeight(dWeightNameOf, 4, Num(2))>>),
    FullWeight(dWeightNameOf, 4, Num(2)),
    Node(sMaxOf, Num(6), <<FullWeight(dWeightColorOf, 6, Str(sTrue)),
                           FullWeight(dWeightNameOf, 4, Num(2))>>),
    Node(sMaxOf, Num(6), <<Node(dSumOf, Num(6),
                                <<FullWeight(dWeightColorOf, 6, Str(sTrue))>>)>>),
    Node(dProductOf, Num(12), <<Node(sQuery, Num(2), <<>>),
                                FullWeight(dWeightNameOf, 6, Num(2))>>),
    Node(dSumOf, Num(10), <<FullWeight(dWeightColorOf, 6, Str(sTrue)),
                            WeightShortTf(dWeightNameOf, 4)>>),
    Node(dSumOf, Num(10), <<WeightNoTf(dWeightNameOf, 4),
                            FullWeight(dWeightColorOf, 6, Str(sTrue))>>),
    Node(dSumOf, Num(10), <<Node(dWeightFieldX, Num(6), <<>>),
                            Node(dWeightFieldY, Num(4), <<>>)>>),
    Node(dSumOf, Num(10), <<Node(dX, Num(6), <<>>), Node(dWeightLong, Num(4), <<>>)>>),
    Node(dProductOf, Num(25), <<Node(dSumOf, Num(5), <<Node(dX, Num(2), <<>>),
                                                      Node(dY, Num(3), <<>>)>>),
                                Node(dSumOf, Num(5), <<Node(dY, Num(3), <<>>),
                                                      Node(dX, Num(2), <<>>)>>)>>) }

\* product ids and item keys
pP == <<"P">>
pQ == <<"Q">>
pS == <<"S">>
kAP == <<"A","_","P">>
kBP == <<"B","_","P">>
kAQ == <<"A","_","Q">>
kAPx == <<"A","_","P","_","x">>
kCR == <<"C","_","R">>
KeyPool == {kAP, kBP, kAQ, kAPx, kCR}

\* documents: P lists sku A, P again under another name, Q and S list no sku
DocP == Doc(pP, "Pants", "M", "p.png", <<StyleSku(<<"A">>, "pa.png")>>)
DocP2 == Doc(pP, "Pants II", "L", "p2.png", <<>>)
DocQ == Doc(pQ, "Shirt", "S", "q.png", <<>>)
DocS == Doc(pS, "Socks", "S", "s.png", <<>>)
DocPool == {DocP, DocP2, DocQ, DocS}

\* the explanation that the generated responses give each item key
TreeOfKey(key) ==
  CASE key = kAP -> Node(dSumOf, Num(10),
                         <<Node(dWeightColor, Num(6), <<Node(sBoost, Str(sTrue), <<>>)>>),
                           Node(dWeightName, Num(4), <<>>)>>)
    [] key = kBP -> Node(dWeightName, Num(4), <<Node(sBoost, Num(2), <<>>)>>)
    [] key = kAQ -> Node(dWeightName, Num(7), <<>>)
    [] key = kAPx -> Node(dSumOf, Num(5), <<Node(dWeightName, Num(5), <<>>)>>)
    [] OTHER -> Node(dSumOf, Num(1), <<>>)

Entry(key, node) == [key |-> key, node |-> node]

RECURSIVE SeqsNoRepeat(_, _)
\* the sequences of at most n distinct elements of S
SeqsNoRepeat(S, n) ==
  IF n = 0 THEN {<<>>}
  ELSE {<<>>} \cup UNION {{<<x>> \o r : r \in {q \in SeqsNoRepeat(S, n - 1) :
                                                \A i \in 1..Len(q) : q[i] # x}} :
                         x \in S}

RECURSIVE SeqsUpTo(_, _)
\* the sequences of at most n elements of S
SeqsUpTo(S, n) ==
  IF n = 0 THEN {<<>>}
  ELSE {<<>>} \cup {<<x>> \o r : x \in S, r \in SeqsUpTo(S, n - 1)}

\* responses that vary the item keys and the documents
KeyDocInputs ==
  {Data([i \in 1..Len(ks) |-> Entry(ks[i], TreeOfKey(ks[i]))], ds) :
     ks \in SeqsNoRepeat(KeyPool, MaxKeys), ds \in SeqsUpTo(DocPool, MaxDocs)}

\* the response that gives the one matched item A_P the explanation tree t
TreeInput(t) == Data(<<Entry(kAP, t)>>, <<DocP>>)

\* the sku scores of the score inputs: negative, zero and positive
SkuScores == {-3, -1, 0, 5}

\* responses that vary the scores of the two skus of one product
ScoreInputs ==
  {Data(<<Entry(kAP, Node(dX, Num(a), <<>>)), Entry(kBP, Node(dY, Num(b), <<>>))>>,
        <<DocP>>) : a \in SkuScores, b \in SkuScores}

\* a response with three products, one item each
kAS == <<"A","_","S">>
DeckData ==
  Data(<<Entry(kAP, TreeOfKey(kAP)), Entry(kAQ, TreeOfKey(kAQ)),
         Entry(kAS, Node(dWeightName, Num(3), <<>>))>>, <<DocP, DocQ, DocS>>)

\* explanations with the boost color-boost-true, with pant-boost-2, with both
\* in either order, and with none
BoostColor == Node(dWeightColor, Num(6), <<Node(sBoost, Str(sTrue), <<>>)>>)
BoostPant == Node(dWeightName, Num(4), <<Node(sBoost, Num(2), <<>>)>>)
BoostTrees == {BoostColor, BoostPant, Node(dSumOf, Num(10), <<BoostColor, BoostPant>>),
               Node(dSumOf, Num(10), <<BoostPant, BoostColor>>), Node(dX, Num(1), <<>>)}

\* responses with three products whose items carry those explanations
FilterData(a, b, c) ==
  Data(<<Entry(kAP, a), Entry(kAQ, b), Entry(kAS, c)>>, <<DocP, DocQ, DocS>>)

\* what the sign-in form holds and what the token endpoint reports as
\* expires_in: seconds, or nothing
Users == {"u", "v"}
ExpiryValues == {Num(1), Num(2), Num(15), Num(16), Num(3600), U}

\* the responses the API gives the page
PageResponses ==
  { Data(<<Entry(kAP, TreeOfKey(kAP)), Entry(kBP, TreeOfKey(kBP))>>, <<DocP>>),
    Data(<<Entry(kAQ, TreeOfKey(kAQ))>>, <<DocQ, DocS>>),
    Data(<<Entry(kCR, TreeOfKey(kCR))>>, <<DocP>>) }

\* what the user types in the search bar
sCheckPantBoost2 == <<"c","h","e","c","k"," ","p","a","n","t"," ","b","o","o","s","t"," ","2">>
Searches == {<<"a">>, sCheckPantBoost2}

\* how a query fails: the fetch rejects, the status is not OK, or the body
\* has no debug.explain to decompose
Failures == {"rejected", "notOK", "undecomposable"}

NoData == Data(<<>>, <<>>)

\* the names of the files of the json-files directory
fA == <<"a",".","j","s","o","n">>
fBC == <<"b"," ","c",".","j","s","o","n">>
fAB == <<"a",".","b",".","j","s","o","n">>
FileNames == {fA, fBC, fAB}

\* the bodies of the files: two items of one product; an item of no document
\* first; an item of no document between two others; one item; no item
FileDatas ==
  { Data(<<Entry(kAP, TreeOfKey(kAP)), Entry(kBP, TreeOfKey(kBP))>>, <<DocP>>),
    Data(<<Entry(kCR, TreeOfKey(kCR)), Entry(kAP, TreeOfKey(kAP))>>, <<DocP>>),
    Data(<<Entry(kAP, TreeOfKey(kAP)), Entry(kCR, TreeOfKey(kCR)),
           Entry(kBP, TreeOfKey(kBP))>>, <<DocP>>),
    Data(<<Entry(kAQ, TreeOfKey(kAQ))>>, <<DocQ, DocS>>),
    NoData }

\* the listings: at most MaxFiles files of distinct names
FileLists ==
  UNION {{[i \in 1..n |-> [name |-> ns[i], data |-> ds[i]]] :
            ns \in {q \in SeqsNoRepeat(FileNames, n) : Len(q) = n},
            ds \in {q \in SeqsUpTo(FileDatas, n) : Len(q) = n}} : n \in 0..MaxFiles}

(* ------------------------------------------------------------------ *)
(* decompose.js: the file pipeline                                      *)
(* ------------------------------------------------------------------ *)
\* skuslist[i]["list_price"], undefined when the entry has no such field
ListPrice(sku) == IF "list_price" \in DOMAIN sku THEN sku.list_price ELSE "undefined"

\* the inner loop of setData in decompose.js: the sku image, the list price
\* and the colours of the first entry with the sku id
FileSkuDetailsOf(skuslist, skuId) ==
  LET C == {i \in 1..Len(skuslist) : skuslist[i].sku_id = skuId}
      first == CHOOSE i \in C : \A j \in C : i <= j
  IN IF C = {} THEN <<>>
     ELSE <<skuslist[first].sku_skuImages[1], ListPrice(skuslist[first]), "colors">>

\* setData of decompose.js: the array of the first document whose product_id
\* is productId, or nothing (undefined) when no document matches
FileSetData(data, productId, skuId) ==
  LET docs == data.docs
      C == {i \in 1..Len(docs) : docs[i].product_id = productId}
  IN IF C = {} THEN [found |-> FALSE, array |-> <<>>]
     ELSE LET item == docs[CHOOSE i \in C : \A j \in C : i <= j]
          IN [found |-> TRUE,
              array |-> <<item.product_displayName, item.sku_size, item.sku_skuImages[1]>>
                        \o FileSkuDetailsOf(item.style_order_list, skuId)]

\* array[4] of setData's result: the price, undefined without sku details
SkuPrice(array) == IF Len(array) >= 5 THEN array[5] ELSE "undefined"

RECURSIVE FileTraverseDetails(_, _)
RECURSIVE FileTraverseChildren(_, _, _)
\* the for loop of traverseDetails in decompose.js over item["details"]
FileTraverseChildren(depth, short, i) ==
  IF i > Len(short) THEN <<>>
  ELSE <<<<depth + 1, short[i].description, short[i].value>>>>
       \o FileTraverseDetails(depth + 1, short[i])
       \o FileTraverseChildren(depth, short, i + 1)

\* traverseDetails of decompose.js on a node: the records it pushes; the call
\* on the details array finds no key named 'details' and pushes nothing
FileTraverseDetails(depth, item) ==
  IF item.details # <<>> THEN FileTraverseChildren(depth, item.details, 1) ELSE <<>>

\* the body of the for-in loop of decomposeSKU in decompose.js on one item
\* key; st holds the products and the details of the file and whether an
\* exception was thrown: array[0] of an undefined array throws a TypeError
FileDecomposeItem(st, data, e) ==
  LET item == e.key
      parts == Split(item, <<"_">>)
      prodId == At(parts, 2)
      skuId == At(parts, 1)
      r == FileSetData(data, prodId, skuId)
      p == ProductIndex(st.products, prodId)
      withProduct == IF p # 0 THEN st.products
                     ELSE Append(st.products,
                                 [productId |-> prodId, displayName |-> r.array[1],
                                  size |-> r.array[2], prodImg |-> r.array[3],
                                  skus |-> <<>>])
      q == IF p # 0 THEN p ELSE Len(withProduct)
      entry == [skuId |-> skuId, skuScore |-> e.node.value,
                skuImg |-> SkuImg(r.array), price |-> SkuPrice(r.array)]
  IN IF ~r.found THEN [st EXCEPT !.threw = TRUE]
     ELSE [st EXCEPT !.products = [withProduct EXCEPT ![q].skus = PutSku(@, entry)],
                     !.details = (item :> FileTraverseDetails(0, e.node)) @@ @]

RECURSIVE FileDecomposeItems(_, _, _)
\* for (item in skus) from item key i on; an exception ends the loop
FileDecomposeItems(st, data, i) ==
  IF i > Len(data.explain) \/ st.threw THEN st
  ELSE FileDecomposeItems(FileDecomposeItem(st, data, data.explain[i]), data, i + 1)

\* decomposeSKU(data, filename) of decompose.js on the stores all: the two
\* entries of the file are emptied, then filled item by item
FileDecomposeSKU(all, data, filename) ==
  LET st == FileDecomposeItems([products |-> <<>>, details |-> <<>>, threw |-> FALSE],
                               data, 1)
  IN [products |-> (filename :> st.products) @@ all.products,
      details |-> (filename :> st.details) @@ all.details,
      threw |-> st.threw]

\* filename.split(" ").join("-") and then .split(".")[0]
FileKey(filename) == Split(Join(Split(filename, <<" ">>), <<"-">>), <<".">>)[1]

\* writeDetails(filename): the details of the file reach the server when the
\* request succeeds; a failure is caught and logged
WriteDetails(fs, filename, ok) ==
  IF ok THEN [fs EXCEPT !.detailsWritten = (filename :> fs.details[filename]) @@ @]
  ELSE fs

\* the rest of grabOneJson(filename) once the file was fetched: decomposeSKU,
\* then writeDetails unless decomposeSKU threw
DecomposeAndWrite(fs, st, filename, writeOK) ==
  IF st.threw THEN [fs EXCEPT !.products = st.products, !.details = st.details]
  ELSE WriteDetails([fs EXCEPT !.products = st.products, !.details = st.details],
                    filename, writeOK)

\* grabOneJson(file.name): a failed fetch is caught before anything is stored
GrabOneJson(fs, file, fetchOK, writeOK) ==
  IF ~fetchOK THEN fs
  ELSE DecomposeAndWrite(fs,
                         FileDecomposeSKU([products |-> fs.products, details |-> fs.details],
                                          file.data, FileKey(file.name)),
                         FileKey(file.name), writeOK)

\* writeProducts(): the whole product map is posted; a failure is caught
WriteProducts(fs, ok) ==
  [fs EXCEPT !.requests = @ + 1,
             !.productsWritten = IF ok THEN Append(@, fs.products) ELSE @]

\* the file pipeline before the refresh button is clicked; log keeps, for
\* each file gone through, whether its fetch and its write request succeeded
NoFiles == [pc |-> "idle", names |-> <<>>, i |-> 0, products |-> <<>>, details |-> <<>>,
            log |-> <<>>, detailsWritten |-> <<>>, requests |-> 0,
            productsWritten |-> <<>>]

(* ------------------------------------------------------------------ *)
(* spreadDeck: the click on a title card                                *)
(* ------------------------------------------------------------------ *)
sSpread == <<"s","p","r","e","a","d">>

\* classList.contains(token)
HasToken(classList, token) == \E k \in 1..Len(classList) : classList[k] = token

\* classList.remove(token)
ClassListRemove(classList, token) == SelectSeq(classList, LAMBDA c : c # token)

\* the containers of the page in document order, as <<section, container>>
Containers(its) ==
  UNION {{<<i, j>> : j \in 1..Len(its[i].containers)} : i \in 1..Len(its)}

\* qs('.product-container.spread'): the first container in document order
\* that carries both classes; <<0, 0>> for null
QuerySpread(its) ==
  LET C == {sc \in Containers(its) :
              LET cl == its[sc[1]].containers[sc[2]].classList
              IN /\ \E k \in 1..Len(cl) : cl[k] = sProductContainer
                 /\ \E k \in 1..Len(cl) : cl[k] = sSpread}
  IN IF C = {} THEN <<0, 0>>
     ELSE CHOOSE sc \in C : \A o \in C :
            sc[1] < o[1] \/ (sc[1] = o[1] /\ sc[2] <= o[2])

\* the three classList.remove('spread') on the spread deck and its spacers
Collapse(its, spread) ==
  [its EXCEPT ![spread[1]].containers[spread[2]] =
     [@ EXCEPT !.previousSibling = ClassListRemove(@, sSpread),
               !.nextSibling = ClassListRemove(@, sSpread),
               !.classList = ClassListRemove(@, sSpread)]]

\* the three classList.add('spread') on the clicked deck and its spacers
Expand(its, section) ==
  [its EXCEPT ![section[1]].containers[section[2]] =
     [@ EXCEPT !.classList = ClassListAdd(@, sSpread),
               !.previousSibling = ClassListAdd(@, sSpread),
               !.nextSibling = ClassListAdd(@, sSpread)]]

SpreadDeckKeepingOthers(its, section) ==
  IF QuerySpread(its) = section THEN Collapse(its, section)
  ELSE Expand(its, section)

\* spreadDeck(e) with section = e.currentTarget.parentElement
SpreadDeck(its, section) ==
  LET spread == QuerySpread(its)
  IN IF spread = <<0, 0>> THEN Expand(its, section)
     ELSE IF spread = section THEN Collapse(its, spread)
     ELSE Expand(Collapse(its, spread), section)

\* before any click on a title card
NoClick == [section |-> <<0, 0>>, wasSpread |-> FALSE]

(* ------------------------------------------------------------------ *)
(* filterCards and unfilterCards                                        *)
(* ------------------------------------------------------------------ *)
sHideBoost == <<"h","i","d","e","-","b","o","o","s","t">>

\* (filters[i].id).split('-').slice(1).join('-')
BoostOfId(checkboxId) == Join(Tail(Split(checkboxId, <<"-">>)), <<"-">>)

\* qsa('#filter input[type=checkbox]:checked'): the checked checkboxes in
\* document order
CheckedFilters(list, checked) == SelectSeq(list, LAMBDA c : c \in checked)

\* the container c with InContainer applied to its classList and InCard to
\* the classList of each of its cards
ReclassContainer(c, InContainer(_), InCard(_)) ==
  [c EXCEPT !.classList = InContainer(c.classList),
            !.cards = [k \in 1..Len(c.cards) |->
                         [c.cards[k] EXCEPT !.classList = InCard(c.cards[k].classList)]]]

\* the page with the classLists of all its containers and cards changed
Reclass(its, InContainer(_), InCard(_)) ==
  [i \in 1..Len(its) |->
     [its[i] EXCEPT !.containers =
        [j \in 1..Len(its[i].containers) |->
           ReclassContainer(its[i].containers[j], InContainer, InCard)]]]

\* cards = qsa(`.${boost}`) and classList.add('hide-boost') on each
HideWith(its, boost) ==
  Reclass(its,
          LAMBDA cl : IF HasToken(cl, boost) THEN ClassListAdd(cl, sHideBoost) ELSE cl,
          LAMBDA cl : IF HasToken(cl, boost) THEN ClassListAdd(cl, sHideBoost) ELSE cl)

\* cards = qsa(`.product-container:not(.${boost}`) and
\* classList.add('hide-boost') on each
HideContainersWithout(its, boost) ==
  Reclass(its,
          LAMBDA cl : IF HasToken(cl, sProductContainer) /\ ~HasToken(cl, boost)
                      THEN ClassListAdd(cl, sHideBoost) ELSE cl,
          LAMBDA cl : cl)

\* cards = qsa(`.${boost}`) and classList.remove('hide-boost') on each
ShowWith(its, boost) ==
  Reclass(its,
          LAMBDA cl : IF HasToken(cl, boost) THEN ClassListRemove(cl, sHideBoost) ELSE cl,
          LAMBDA cl : IF HasToken(cl, boost) THEN ClassListRemove(cl, sHideBoost) ELSE cl)

\* qsa(`.hide-boost`) and classList.remove('hide-boost') on each
ShowAll(its) ==
  Reclass(its, LAMBDA cl : ClassListRemove(cl, sHideBoost),
               LAMBDA cl : ClassListRemove(cl, sHideBoost))

RECURSIVE ExcludeLoop(_, _)
\* the loop of the exclude branch over the checked checkboxes
ExcludeLoop(its, filters) ==
  IF filters = <<>> THEN its
  ELSE ExcludeLoop(HideWith(its, BoostOfId(Head(filters))), Tail(filters))

RECURSIVE IncludeLoop(_, _)
\* the loop of the else branch over the checked checkboxes
IncludeLoop(its, filters) ==
  IF filters = <<>> THEN its
  ELSE IncludeLoop(ShowWith(HideContainersWithout(its, BoostOfId(Head(filters))),
                            BoostOfId(Head(filters))),
                   Tail(filters))

\* filterCards(): qs('input[type=radio]:checked') is null when no radio is
\* checked, and reading its id throws
FilterCards(its, radio, filters) ==
  IF radio = "none" THEN its
  ELSE IF radio = "exclude" THEN ExcludeLoop(its, filters)
  ELSE IncludeLoop(its, filters)

\* unfilterCards(): type.checked = false throws on null, before anything is
\* cleared; gives the page and the filter controls
UnfilterCards(its, flt) ==
  IF flt.radio = "none" THEN [items |-> its, radio |-> flt.radio, checked |-> flt.checked]
  ELSE [items |-> ShowAll(its), radio |-> "none", checked |-> {}]

\* the filter controls before any click: the checked radio, the checked
\* checkboxes, and the control clicked last with the radio checked then
NoFilter == [radio |-> "none", checked |-> {}, last |-> [op |-> "none", radio |-> "none"]]

(* ------------------------------------------------------------------ *)
(* refreshJwt: the token and its refresh timers                         *)
(* ------------------------------------------------------------------ *)
\* parseInt(responseJSON['expires_in'])
SecondsUntilExpiration(expires_in) == ParseInt(ValueToString(expires_in))

\* secondsUntilExpiration > 15 ? 10 : 2; a comparison with NaN is false
GraceSeconds(seconds) == IF seconds # NaN /\ seconds > 15 THEN 10 ELSE 2

\* secondsUntilRefresh * 1000, the delay handed to setTimeout; arithmetic
\* on NaN gives NaN
RefreshDelay(seconds) ==
  IF seconds = NaN THEN NaN ELSE (seconds - GraceSeconds(seconds)) * 1000

\* the page before any sign-in: the fields of the form, the classes of the
\* form and of the text beside it, the token requests in flight, the
\* pending timers in the order of their setTimeout, and the last response
NoAuth(formHidden, textHidden) ==
  [jwt |-> FALSE, username |-> "", formHidden |-> formHidden, textHidden |-> textHidden,
   requests |-> <<>>, timers |-> <<>>, signIns |-> 0,
   last |-> [ok |-> FALSE, expires_in |-> U, delay |-> 0]]

\* the sequence s without its element i
Without(s, i) == SubSeq(s, 1, i - 1) \o SubSeq(s, i + 1, Len(s))

\* refreshJwt up to its fetch: a request with the credentials leaves
RequestToken(au, user, fromSubmit) ==
  [au EXCEPT !.requests = Append(@, [user |-> user, fromSubmit |-> fromSubmit])]

\* the end of the submit listener, after authenticateJWT returned
ClearFields(au, r) == IF r.fromSubmit THEN [au EXCEPT !.username = ""] ELSE au

\* refreshJwt from the response of request i on: the token is kept, the
\* form and the text toggle, and the next refresh is scheduled
RefreshJwt(au, i, expires_in) ==
  LET r == au.requests[i]
      delay == RefreshDelay(SecondsUntilExpiration(expires_in))
  IN ClearFields([au EXCEPT !.requests = Without(@, i),
                            !.jwt = TRUE,
                            !.formHidden = ~@,
                            !.textHidden = ~@,
                            !.timers = Append(@, [delay |-> delay, user |-> r.user]),
                            !.last = [ok |-> TRUE, expires_in |-> expires_in,
                                      delay |-> delay]], r)

\* the catch of refreshJwt: nothing is scheduled
RefreshJwtFailed(au, i) ==
  ClearFields([au EXCEPT !.requests = Without(@, i),
                         !.last = [ok |-> FALSE, expires_in |-> U, delay |-> 0]],
              au.requests[i])

(* ------------------------------------------------------------------ *)
(* State                                                                *)
(* ------------------------------------------------------------------ *)
VARIABLES
  allProducts,   \* let allProducts: the products in insertion order
  allDetails,    \* let allDetails: item key -> flattened score records
  items,         \* the sections under #items
  itemsHidden,   \* #items carries the class hidden
  errorHidden,   \* #error carries the class hidden
  checklist,     \* the ids of the checkboxes under #checklist
  searchbar,     \* the value of #searchbar
  pending,       \* the loadPage calls waiting for their fetch
  submitted,     \* how many queries were submitted
  latest,        \* the latest submitted query: overlap, outcome, response
  finished,      \* how the loadPage that finished last ended
  decomposed,    \* the response decomposeSKU completed on last, and those before
  input,         \* the response of the stepwise pipeline
  pc,            \* the position of the stepwise pipeline
  files,         \* decompose.js: the stores, the requests sent, the position of getData
  deck,          \* the deck whose title card was clicked last, and whether it was spread
  auth,          \* let jwt, the sign-in form, the token requests and the refresh timers
  filter         \* the include/exclude radios, the checked boost checkboxes, the last click

vars == <<allProducts, allDetails, items, itemsHidden, errorHidden, checklist,
          searchbar, pending, submitted, latest, finished, decomposed, input, pc,
          files, deck, auth, filter>>

\* the state of index.js's page and stores
indexVars == <<allProducts, allDetails, items, itemsHidden, errorHidden, checklist,
               searchbar, pending, submitted, latest, finished, decomposed, input, pc>>
\* the state outside index.js's query pipeline
sideVars == <<files, deck, auth, filter>>

pageVars == <<items, itemsHidden, errorHidden, checklist, searchbar>>
historyVars == <<pending, submitted, latest, finished>>

InitPage ==
  /\ allProducts = <<>>
  /\ allDetails = <<>>
  /\ items = <<>>
  /\ itemsHidden = FALSE
  /\ errorHidden = TRUE
  /\ checklist = <<>>
  /\ searchbar = <<"a">>
  /\ pending = {}
  /\ submitted = 0
  /\ latest = [overlap |-> FALSE, outcome |-> "none", data |-> NoData]
  /\ finished = "none"
  /\ decomposed = [done |-> FALSE, data |-> NoData, earlier |-> {}]
  /\ files = NoFiles
  /\ deck = NoClick
  /\ auth = NoAuth(TRUE, TRUE)
  /\ filter = NoFilter

Init ==
  /\ InitPage
  /\ input = NoData
  /\ pc = "page"

(* ------------------------------------------------------------------ *)
(* The page: loadPage                                                   *)
(* ------------------------------------------------------------------ *)
\* The submit handler up to the fetch of queryData: the user submits the
\* text q; loadPage and queryData empty #items and the request leaves.
Submit(q) ==
  /\ pc = "page"
  /\ submitted < MaxQueries
  /\ searchbar' = q
  /\ items' = <<>>
  /\ submitted' = submitted + 1
  /\ pending' = pending \cup {[qid |-> submitted + 1, q |-> q]}
  /\ latest' = [overlap |-> pending # {}, outcome |-> "pending", data |-> NoData]
  /\ UNCHANGED <<allProducts, allDetails, itemsHidden, errorHidden, checklist,
                 finished, decomposed, input, pc>>
  /\ UNCHANGED sideVars

\* displayData and the end of loadPage, from the stores st and the items it
DisplayData(st, it) ==
  LET pg == BuildInterface(it, st.products, st.details, searchbar)
  IN /\ itemsHidden' = FALSE
     /\ items' = RemoveLoad(pg.items)
     /\ checklist' = pg.checklist

\* The fetch of a pending request r resolves with the body data: queryData
\* hides #error and decomposes, then displayData builds the page.
RespondOK ==
  \E r \in pending, data \in PageResponses :
    /\ pc = "page"
    /\ pending' = pending \ {r}
    /\ LET st == DecomposeSKU([products |-> allProducts, details |-> allDetails], data)
       IN /\ allProducts' = st.products
          /\ allDetails' = st.details
    /\ DisplayData([products |-> allProducts', details |-> allDetails'], items)
    /\ errorHidden' = TRUE
    /\ decomposed' = [done |-> TRUE, data |-> data,
                      earlier |-> IF decomposed.done
                                  THEN decomposed.earlier \cup {decomposed.data}
                                  ELSE {}]
    /\ latest' = IF r.qid = submitted
                 THEN [latest EXCEPT !.outcome = "ok", !.data = data] ELSE latest
    /\ finished' = "ok"
    /\ UNCHANGED <<searchbar, submitted, input, pc>>
    /\ UNCHANGED sideVars

\* The query of a pending request r fails: queryData catches the error and
\* calls handleError, which empties and hides #items and shows #error;
\* loadPage then goes on to displayData with the stores as they are.
RespondFail ==
  \E r \in pending, how \in Failures :
    /\ pc = "page"
    /\ pending' = pending \ {r}
    /\ DisplayData([products |-> allProducts, details |-> allDetails], <<>>)
    /\ errorHidden' = FALSE
    /\ latest' = IF r.qid = submitted
                 THEN [latest EXCEPT !.outcome = "failed"] ELSE latest
    /\ finished' = "failed"
    /\ UNCHANGED <<allProducts, allDetails, searchbar, submitted, decomposed, input, pc>>
    /\ UNCHANGED sideVars

Next ==
  \/ \E q \in Searches : Submit(q)
  \/ RespondOK
  \/ RespondFail

Spec == Init /\ [][Next]_vars

(* ------------------------------------------------------------------ *)
(* One load, step by step, over the generated responses                 *)
(* ------------------------------------------------------------------ *)
InitDecompose ==
  /\ InitPage
  /\ \/ input \in KeyDocInputs
     \/ \E n \in 1..MaxNodes : \E t \in TreesOfSize(n) : input = TreeInput(t)
     \/ \E t \in ExtraTrees \cup SummaryTrees : input = TreeInput(t)
     \/ \E n \in 1..MaxFormulaNodes :
          \E t \in FormulaTreesOfSize(n) : input = TreeInput(t)
     \/ \E d \in FragmentTexts(MaxFragments) : input = TreeInput(Node(d, Num(1), <<>>))
     \/ input \in ScoreInputs
  /\ pc = "start"

\* decomposeSKU(res) at the end of queryData
QueryDataStep ==
  /\ pc = "start"
  /\ LET st == DecomposeSKU([products |-> allProducts, details |-> allDetails], input)
     IN /\ allProducts' = st.products
        /\ allDetails' = st.details
  /\ decomposed' = [done |-> TRUE, data |-> input, earlier |-> {}]
  /\ pc' = "decomposed"
  /\ UNCHANGED <<pageVars, historyVars, input>>
  /\ UNCHANGED sideVars

\* displayData() and the end of loadPage
DisplayDataStep ==
  /\ pc = "decomposed"
  /\ DisplayData([products |-> allProducts, details |-> allDetails], items)
  /\ pc' = "displayed"
  /\ UNCHANGED <<allProducts, allDetails, errorHidden, searchbar, historyVars,
                 decomposed, input>>
  /\ UNCHANGED sideVars

NextDecompose == QueryDataStep \/ DisplayDataStep

SpecDecompose == InitDecompose /\ [][NextDecompose]_vars

(* ------------------------------------------------------------------ *)
(* decompose.js: one click on the refresh button                        *)
(* ------------------------------------------------------------------ *)
InitFiles ==
  /\ InitPage
  /\ input = NoData
  /\ pc = "files"

\* getData() up to the loop: grabAllJson returns the listing, or undefined
\* after a failed request, and then fileNames.length throws and getData ends
GetData ==
  \E list \in FileLists, listed \in BOOLEAN :
    /\ pc = "files"
    /\ files.pc = "idle"
    /\ files' = IF listed THEN [files EXCEPT !.pc = "file", !.names = list, !.i = 1]
                ELSE [files EXCEPT !.pc = "done"]
    /\ UNCHANGED indexVars
    /\ UNCHANGED <<deck, auth, filter>>

\* await grabOneJson(fileNames[i]) of the loop of getData
GrabNextFile ==
  \E fetchOK \in BOOLEAN, writeOK \in BOOLEAN :
    /\ pc = "files"
    /\ files.pc = "file"
    /\ files.i <= Len(files.names)
    /\ files' = [GrabOneJson(files, files.names[files.i], fetchOK, writeOK)
                   EXCEPT !.i = @ + 1,
                          !.log = Append(@, [fetchOK |-> fetchOK, writeOK |-> writeOK])]
    /\ UNCHANGED indexVars
    /\ UNCHANGED <<deck, auth, filter>>

\* await writeProducts() after the loop of getData
FinishGetData ==
  \E ok \in BOOLEAN :
    /\ pc = "files"
    /\ files.pc = "file"
    /\ files.i > Len(files.names)
    /\ files' = [WriteProducts(files, ok) EXCEPT !.pc = "done"]
    /\ UNCHANGED indexVars
    /\ UNCHANGED <<deck, auth, filter>>

NextFiles == GetData \/ GrabNextFile \/ FinishGetData

SpecFiles == InitFiles /\ [][NextFiles]_vars

(* ------------------------------------------------------------------ *)
(* Signing in and the refreshes that follow                             *)
(* ------------------------------------------------------------------ *)
InitAuth ==
  /\ InitPage
  /\ input = NoData
  /\ pc = "auth"

authOthers == <<allProducts, allDetails, checklist, searchbar, historyVars,
                decomposed, input, pc, files, deck, filter>>

\* the click listener of #signin
ClickSignin ==
  /\ pc = "auth"
  /\ auth' = [auth EXCEPT !.formHidden = ~@, !.textHidden = ~@]
  /\ UNCHANGED <<items, itemsHidden, errorHidden>>
  /\ UNCHANGED authOthers

\* the user fills in the form and submits it: authenticateJWT calls
\* refreshJwt, which awaits its fetch
SubmitSignIn ==
  \E user \in Users :
    /\ pc = "auth"
    /\ auth.signIns < MaxSignIns
    /\ auth' = [RequestToken([auth EXCEPT !.username = user], user, TRUE)
                 EXCEPT !.signIns = @ + 1]
    /\ UNCHANGED <<items, itemsHidden, errorHidden>>
    /\ UNCHANGED authOthers

\* a token request is answered with a token
TokenGranted ==
  \E i \in 1..Len(auth.requests), expires_in \in ExpiryValues :
    /\ pc = "auth"
    /\ auth' = RefreshJwt(auth, i, expires_in)
    /\ errorHidden' = TRUE
    /\ UNCHANGED <<items, itemsHidden>>
    /\ UNCHANGED authOthers

\* a token request fails: handleError empties and hides #items and shows
\* #error
TokenRefused ==
  \E i \in 1..Len(auth.requests) :
    /\ pc = "auth"
    /\ auth' = RefreshJwtFailed(auth, i)
    /\ items' = <<>>
    /\ itemsHidden' = TRUE
    /\ errorHidden' = FALSE
    /\ UNCHANGED authOthers

\* a pending timer fires: refreshJwt runs again with the credentials it
\* was scheduled with
TimerFires ==
  \E i \in 1..Len(auth.timers) :
    /\ pc = "auth"
    /\ auth' = RequestToken([auth EXCEPT !.timers = Without(@, i)],
                            auth.timers[i].user, FALSE)
    /\ UNCHANGED <<items, itemsHidden, errorHidden>>
    /\ UNCHANGED authOthers

NextAuth == ClickSignin \/ SubmitSignIn \/ TokenGranted \/ TokenRefused \/ TimerFires

SpecAuth == InitAuth /\ [][NextAuth]_vars

(* ------------------------------------------------------------------ *)
(* One load, then the filter controls                                   *)
(* ------------------------------------------------------------------ *)
InitFilter ==
  /\ InitPage
  /\ \E a \in BoostTrees, b \in BoostTrees, c \in BoostTrees : input = FilterData(a, b, c)
  /\ pc = "start"

filterOthers == <<allProducts, allDetails, itemsHidden, errorHidden, checklist,
                  searchbar, historyVars, decomposed, input, pc, files, deck, auth>>

\* the user checks one of the two radios
CheckRadio ==
  \E type \in {"include", "exclude"} :
    /\ pc = "displayed"
    /\ filter' = [filter EXCEPT !.radio = type,
                                !.last = [op |-> "radio", radio |-> filter.radio]]
    /\ UNCHANGED items
    /\ UNCHANGED filterOthers

\* the user checks or unchecks a checkbox of #checklist
ToggleCheckbox ==
  \E k \in 1..Len(checklist) :
    /\ pc = "displayed"
    /\ filter' = [filter EXCEPT !.checked = IF checklist[k] \in @ THEN @ \ {checklist[k]}
                                             ELSE @ \cup {checklist[k]},
                                !.last = [op |-> "checkbox", radio |-> filter.radio]]
    /\ UNCHANGED items
    /\ UNCHANGED filterOthers

\* the click on #filter-btn: filterCards()
ClickFilter ==
  /\ pc = "displayed"
  /\ items' = FilterCards(items, filter.radio, CheckedFilters(checklist, filter.checked))
  /\ filter' = [filter EXCEPT !.last = [op |-> "filter", radio |-> filter.radio]]
  /\ UNCHANGED filterOthers

\* the click on #unfilter-btn: unfilterCards()
ClickUnfilter ==
  /\ pc = "displayed"
  /\ LET r == UnfilterCards(items, filter)
     IN /\ items' = r.items
        /\ filter' = [radio |-> r.radio, checked |-> r.checked,
                      last |-> [op |-> "unfilter", radio |-> filter.radio]]
  /\ UNCHANGED filterOthers

NextFilter ==
  \/ QueryDataStep
  \/ DisplayDataStep
  \/ CheckRadio
  \/ ToggleCheckbox
  \/ ClickFilter
  \/ ClickUnfilter

SpecFilter == InitFilter /\ [][NextFilter]_vars

(* ------------------------------------------------------------------ *)
(* One load, then clicks on the title cards                             *)
(* ------------------------------------------------------------------ *)
InitDeck ==
  /\ InitPage
  /\ \/ input \in KeyDocInputs
     \/ input = DeckData
  /\ pc = "start"

\* the containers whose first child is a title card, which carries the
\* click listener of addProductCard
TitledDecks(its) ==
  {sc \in Containers(its) :
     \E k \in 1..Len(its[sc[1]].containers[sc[2]].cards) :
        its[sc[1]].containers[sc[2]].cards[k].title}

\* the user clicks the title card of a deck: spreadDeck(e)
ClickTitleCard ==
  \E section \in TitledDecks(items) :
    /\ pc = "displayed"
    /\ items' = SpreadDeck(items, section)
    /\ deck' = [section |-> section, wasSpread |-> QuerySpread(items) = section]
    /\ UNCHANGED <<allProducts, allDetails, itemsHidden, errorHidden, checklist,
                   searchbar, historyVars, decomposed, input, pc>>
    /\ UNCHANGED <<files, auth, filter>>

NextDeck == QueryDataStep \/ DisplayDataStep \/ ClickTitleCard

SpecDeck == InitDeck /\ [][NextDeck]_vars

(* ------------------------------------------------------------------ *)
(* What the claims speak of                                             *)
(* ------------------------------------------------------------------ *)
\* the sku id and the product id an item key of the pool stands for
KeySku(key) == CASE key = kAP -> <<"A">> [] key = kBP -> <<"B">> [] key = kAQ -> <<"A">>
                 [] key = kAPx -> <<"A">> [] OTHER -> <<"C">>
KeyProd(key) == CASE key = kAP -> pP [] key = kBP -> pP [] key = kAQ -> pQ
                  [] key = kAPx -> pP [] OTHER -> <<"R">>

\* the item keys of a response, and its explanation of a key
KeysOf(data) == {data.explain[i].key : i \in 1..Len(data.explain)}
NodeOfKey(data, key) ==
  data.explain[CHOOSE i \in 1..Len(data.explain) : data.explain[i].key = key].node

\* the product ids of the documents of a response
DocIds(data) == {data.docs[i].product_id : i \in 1..Len(data.docs)}

\* the item keys whose product id is the product_id of some document
MatchedKeys(data) == {key \in KeysOf(data) : KeyProd(key) \in DocIds(data)}

RECURSIVE PreOrder(_, _)
RECURSIVE PreOrderAll(_, _)
\* the nodes of a tree in pre-order, each with its depth in the tree
PreOrder(depth, node) ==
  <<<<depth, node.description, node.value>>>> \o PreOrderAll(depth + 1, node.details)
PreOrderAll(depth, nodes) ==
  IF nodes = <<>> THEN <<>>
  ELSE PreOrder(depth, Head(nodes)) \o PreOrderAll(depth, Tail(nodes))

RECURSIVE NodeCount(_)
RECURSIVE NodeCountAll(_)
NodeCount(node) == 1 + NodeCountAll(node.details)
NodeCountAll(nodes) ==
  IF nodes = <<>> THEN 0 ELSE NodeCount(Head(nodes)) + NodeCountAll(Tail(nodes))

\* a node lacking description or value
Malformed(node) == node.description = Undefined \/ node.value = U

RECURSIVE WellFormedPreOrder(_, _)
RECURSIVE WellFormedPreOrderAll(_, _)
\* the pre-order of the well-formed nodes, the others skipped
WellFormedPreOrder(depth, node) ==
  (IF Malformed(node) THEN <<>> ELSE <<<<depth, node.description, node.value>>>>)
  \o WellFormedPreOrderAll(depth + 1, node.details)
WellFormedPreOrderAll(depth, nodes) ==
  IF nodes = <<>> THEN <<>>
  ELSE WellFormedPreOrder(depth, Head(nodes)) \o WellFormedPreOrderAll(depth, Tail(nodes))

\* the stores hold the decomposition of a response
Decomposed == decomposed.done
LastData == decomposed.data

\* the records stored for a key, none when the key is absent
DetailsOf(key) == IF key \in DOMAIN allDetails THEN allDetails[key] ELSE <<>>

\* the product ids of allProducts, and the <<product id, sku id>> of its skus
ProductIds == {allProducts[i].productId : i \in 1..Len(allProducts)}
SkuPairs == UNION {{<<allProducts[i].productId, allProducts[i].skus[j].skuId>> :
                      j \in 1..Len(allProducts[i].skus)} : i \in 1..Len(allProducts)}

\* the sku cards on the page, and the item ids they show
SkuCards == UNION {UNION {{items[i].containers[j].cards[k] :
                             k \in {c \in 1..Len(items[i].containers[j].cards) :
                                      ~items[i].containers[j].cards[c].title}} :
                          j \in 1..Len(items[i].containers)} : i \in 1..Len(items)}
DisplayedItemIds == {card.itemId : card \in SkuCards}

\* the item ids a response gives cards to
ItemIdsOf(data) == {KeySku(key) \o <<"_">> \o KeyProd(key) : key \in MatchedKeys(data)}

(* ---- C1 ---- *)
\* C1: decomposeSKU stores under each item key exactly one record per node of
\* the item's explanation tree, in pre-order, the root at depth 1 and every
\* other record one deeper than its parent; the second recursive call on the
\* details array emits nothing twice.
C1_FlattenIsPreOrder ==
  Decomposed =>
    \A key \in DOMAIN allDetails :
      /\ allDetails[key] = PreOrder(1, NodeOfKey(LastData, key))
      /\ Len(allDetails[key]) = NodeCount(NodeOfKey(LastData, key))

\* a tree with a grandchild followed by a second child was flattened
C1_Witness ==
  /\ Decomposed
  /\ kAP \in DOMAIN allDetails
  /\ Len(allDetails[kAP]) = 4
  /\ <<allDetails[kAP][1][1], allDetails[kAP][2][1],
       allDetails[kAP][3][1], allDetails[kAP][4][1]>> = <<1, 2, 3, 2>>

(* ---- C2 ---- *)
\* no product container is displayed under #items
NoCardsDisplayed ==
  itemsHidden \/ \A i \in 1..Len(items) : items[i].containers = <<>>

\* C2: when a query has failed and its loadPage has finished, the page shows
\* the error and no card, score record or boost checkbox of an earlier query.
C2_FailedQueryShowsOnlyError ==
  finished = "failed" =>
    /\ ~errorHidden
    /\ NoCardsDisplayed
    /\ checklist = <<>>

(* ---- C3 ---- *)
\* C3: when the latest query was submitted while an earlier one was in flight
\* and every response has been processed, only the cards of the latest
\* query's response are displayed.
C3_LastQueryWins ==
  (pending = {} /\ latest.overlap /\ latest.outcome = "ok") =>
    DisplayedItemIds = ItemIdsOf(latest.data)

(* ---- C4 ---- *)
\* C4: whenever decomposeSKU has completed on a response, allProducts and
\* allDetails hold exactly the entries of that response, whatever was
\* decomposed before, and decomposing the same response again changes nothing.
C4_StoresRebuiltPerResponse ==
  Decomposed =>
    /\ DOMAIN allDetails = MatchedKeys(LastData)
    /\ ProductIds = {KeyProd(key) : key \in MatchedKeys(LastData)}
    /\ SkuPairs = {<<KeyProd(key), KeySku(key)>> : key \in MatchedKeys(LastData)}
    /\ \A key \in DOMAIN allDetails :
         allDetails[key] = PreOrder(1, NodeOfKey(LastData, key))
    /\ DecomposeSKU([products |-> allProducts, details |-> allDetails], LastData)
         = [products |-> allProducts, details |-> allDetails]

\* a response was decomposed after a different one that had filled the stores
C4_Witness ==
  /\ Decomposed
  /\ allProducts # <<>>
  /\ \E d \in decomposed.earlier :
       /\ MatchedKeys(d) # {}
       /\ MatchedKeys(d) \cap MatchedKeys(LastData) = {}

(* ---- C5 ---- *)
\* C5: a node lacking description or value gets no record, and the traversal
\* goes on: the item's sequence holds the records of the well-formed nodes.
C5_MalformedNodeSkipped ==
  Decomposed =>
    \A key \in DOMAIN allDetails :
      allDetails[key] = WellFormedPreOrder(1, NodeOfKey(LastData, key))

(* ---- C6 ---- *)
\* C6: an item key whose product id is the product_id of no document gets no
\* entry in allProducts and no sequence in allDetails, and every item key of
\* the same response that has a document is aggregated and flattened.
C6_UnmatchedItemDropped ==
  Decomposed =>
    \A key \in KeysOf(LastData) :
      IF KeyProd(key) \in DocIds(LastData)
      THEN /\ key \in DOMAIN allDetails
           /\ <<KeyProd(key), KeySku(key)>> \in SkuPairs
      ELSE /\ key \notin DOMAIN allDetails
           /\ KeyProd(key) \notin ProductIds

\* an unmatched item key came before a matched one in the same response
C6_Witness ==
  /\ Decomposed
  /\ Len(LastData.explain) = 2
  /\ LastData.explain[1].key = kCR
  /\ LastData.explain[2].key \in DOMAIN allDetails

CreatorOf(data, p, s) ==
  LET C == {i \in 1..Len(data.explain) :
              KeyProd(data.explain[i].key) = p /\ KeySku(data.explain[i].key) = s}
  IN data.explain[CHOOSE i \in C : \A j \in C : j <= i]

\* C8: for every sku entry of allProducts, the key skuId_productId that
\* addCard looks up is in allDetails, and its sequence is the flattening of
\* the explanation of the item key that made the entry.
C8_JoinedByCompositeKey ==
  Decomposed =>
    \A ps \in SkuPairs :
      /\ (ps[2] \o <<"_">> \o ps[1]) \in DOMAIN allDetails
      /\ DetailsOf(ps[2] \o <<"_">> \o ps[1])
           = PreOrder(1, CreatorOf(LastData, ps[1], ps[2]).node)

(* ---- C9 ---- *)
\* the role classes, one for each role of the closed set but plain
RoleClassNames == {sScoreboost, sScoreidf, sScoretf, sScoreweight, sScoremax, sScorequery}

\* the classes of an element besides its indent class
ClassesOf(drop) == {drop.classList[k] : k \in 2..Len(drop.classList)}

\* the text of a description before its first "("
BeforeParen(d) ==
  LET i == IndexOf(d, <<"(">>, 1) IN IF i = 0 THEN d ELSE SubSeq(d, 1, i - 1)

\* the role class the rules give a description, first matching rule first;
\* plain is the absence of a role class
RoleByRules(d) ==
  CASE d = Undefined -> {}
    [] d # Undefined /\ d = sBoost -> {sScoreboost}
    [] d # Undefined /\ d # sBoost /\ Includes(d, sIdfComputedAs) -> {sScoreidf}
    [] OTHER ->
       IF Includes(d, sTfComputedAs) THEN {sScoretf}
       ELSE IF BeforeParen(d) = sWeight THEN {sScoreweight}
       ELSE IF BeforeParen(d) = sMaxOf THEN {sScoremax}
       ELSE IF BeforeParen(d) = sQuery THEN {sScorequery}
       ELSE {}

NoWeight == <<"none">>

RECURSIVE WeightAbove(_, _)
RECURSIVE WeightAboveAll(_, _)
\* for the nodes of a tree in pre-order: the description of the nearest
\* proper ancestor that the rules classify as weight-aggregate
WeightAbove(node, above) ==
  <<above>> \o WeightAboveAll(node.details,
                              IF RoleByRules(node.description) = {sScoreweight}
                              THEN node.description ELSE above)
WeightAboveAll(nodes, above) ==
  IF nodes = <<>> THEN <<>>
  ELSE WeightAbove(Head(nodes), above) \o WeightAboveAll(Tail(nodes), above)

sCheckColorBoostTrue == <<"c","h","e","c","k","-","c","o","l","o","r","-","b","o","o","s","t","-","t","r","u","e">>

\* the response of the scenario: a boost of value "true" under a weight
\* whose description holds field_color:
ColorScenario ==
  Data(<<Entry(kAP, Node(dWeightColor, Num(6), <<Node(sBoost, Str(sTrue), <<>>)>>))>>,
       <<DocP>>)

\* C10: a boost record under a weight-aggregate registers the class
\* <boostName>-boost-<value> with the name taken from its nearest
\* weight-aggregate ancestor: the class is on the card and its checkbox is in
\* the checklist; the scenario registers color-boost-true.
C10_BoostClassFromNearestWeight ==
  pc = "displayed" =>
    /\ \A card \in SkuCards :
         card.itemId \in DOMAIN allDetails =>
           LET recs == allDetails[card.itemId]
               above == WeightAbove(NodeOfKey(input, card.itemId), NoWeight)
           IN \A k \in 1..Len(card.drops) :
                (recs[k][2] = sBoost /\ above[k] # NoWeight) =>
                  LET boostClass == StringOf(BoostNameOf(above[k])) \o sBoostInfix
                                    \o ValueToString(recs[k][3])
                  IN /\ \E c \in 1..Len(card.classList) : card.classList[c] = boostClass
                     /\ \E c \in 1..Len(checklist) : checklist[c] = sCheckPrefix \o boostClass
    /\ input = ColorScenario => checklist = <<sCheckColorBoostTrue>>

\* a boost under a name weight that itself lies under a colour weight
C10_Witness ==
  /\ pc = "displayed"
  /\ input = Data(<<Entry(kAP, Node(dWeightColor, Num(6),
                                    <<Node(dWeightName, Num(4),
                                           <<Node(sBoost, Str(sTrue), <<>>)>>)>>))>>,
                  <<DocP>>)
  /\ Len(checklist) = 1

(* ---- C11 ---- *)
\* the boost classes on a sku card: its classes besides product-card
BoostClassesOf(card) == {card.classList[k] : k \in 2..Len(card.classList)}

\* the ids of the checkboxes of #checklist
ChecklistIds == {checklist[k] : k \in 1..Len(checklist)}

\* C11: after a display pass the checklist holds exactly one checkbox for
\* each distinct boost class <boostName>-boost-<value> registered in the
\* pass (each class the pass put on a card), and none twice.  The pages with
\* one section are those built by one display pass since the last submit.
C11_RegistryHasSetSemantics ==
  Len(items) = 1 =>
    /\ \A i, j \in 1..Len(checklist) : checklist[i] = checklist[j] => i = j
    /\ ChecklistIds = {sCheckPrefix \o c : c \in UNION {BoostClassesOf(card) : card \in SkuCards}}

(* ---- C12 ---- *)
\* C12: the step that submits a new query leaves no boost entry of the
\* previous query in the checklist.
C12_RegistryResetOnSubmit ==
  [][submitted' = submitted + 1 => checklist' = <<>>]_vars

(* ---- C13 ---- *)
sSpaceTimesSpace == <<" ", "*", " ">>
sSpacePlusSpace == <<" ", "+", " ">>

RECURSIVE FormulaOf(_)
\* the formula of a node as the rule states it: the children's formulas
\* joined with * for a product, joined with + inside one pair of
\* parentheses for a sum, the node's own value otherwise
FormulaOf(node) ==
  LET parts == [i \in 1..Len(node.details) |-> FormulaOf(node.details[i])]
  IN IF Includes(node.description, sProductOf) THEN Join(parts, sSpaceTimesSpace)
     ELSE IF Includes(node.description, sSumOf)
     THEN sOpenParen \o Join(parts, sSpacePlusSpace) \o sCloseParen
     ELSE ValueToString(node.value)

\* the string scoreSummary synthesizes from the score list of a card
SynthesizedFormula(card) == ScoreFormulaFormat(ScoreFormula(card.drops, 0, sEquals))

\* the sku cards whose item has its records in allDetails, all of them
\* classified into the card's score list
ClassifiedCards ==
  {card \in SkuCards : /\ card.itemId \in KeysOf(input)
                       /\ card.itemId \in DOMAIN allDetails
                       /\ Len(card.drops) = Len(allDetails[card.itemId])}

\* C13: for an item whose root is a product or a sum, the synthesized
\* formula is the formula the rule gives the root: operators only between
\* adjacent children, one pair of parentheses per sum, at every level.
C13_FormulaJoinsChildren ==
  pc = "displayed" =>
    \A card \in ClassifiedCards :
      LET root == NodeOfKey(input, card.itemId)
      IN (Includes(root.description, sProductOf) \/ Includes(root.description, sSumOf))
           => SynthesizedFormula(card) = FormulaOf(root)

(* ---- C14 ---- *)
\* a leaf with a description and a value that is no aggregate
LeafRecord(node) ==
  /\ node.details = <<>>
  /\ node.description # Undefined
  /\ node.value # U
  /\ ~Includes(node.description, sProductOf)
  /\ ~Includes(node.description, sSumOf)

\* a sum whose children are n >= 1 leaf records
SumOfLeaves(node) ==
  /\ node.description # Undefined
  /\ Includes(node.description, sSumOf)
  /\ ~Includes(node.description, sProductOf)
  /\ Len(node.details) >= 1
  /\ \A i \in 1..Len(node.details) : LeafRecord(node.details[i])

\* the tree of the scenario: weights of 6 and 4 under a sum of 10
SumScenario ==
  Node(dSumOf, Num(10), <<Node(dWeightFieldX, Num(6), <<>>),
                          Node(dWeightFieldY, Num(4), <<>>)>>)

sSixPlusFour == <<"(", "6", " ", "+", " ", "4", ")">>

\* C14: an item whose root is a sum of n leaf records is flattened to n + 1
\* records, depth 1 then n of depth 2, and its synthesized formula is
\* "(v1 + ... + vn)"; the scenario gives 3 records and "(6 + 4)".
C14_SumOfLeaves ==
  pc = "displayed" =>
    \A card \in SkuCards :
      (card.itemId \in KeysOf(input) /\ card.itemId \in DOMAIN allDetails
         /\ SumOfLeaves(NodeOfKey(input, card.itemId))) =>
        LET root == NodeOfKey(input, card.itemId)
            recs == allDetails[card.itemId]
        IN /\ Len(recs) = Len(root.details) + 1
           /\ recs[1][1] = 1
           /\ \A k \in 2..Len(recs) : recs[k][1] = 2
           /\ Len(card.drops) = Len(recs)
           /\ SynthesizedFormula(card)
                = sOpenParen
                  \o Join([i \in 1..Len(root.details) |->
                            ValueToString(root.details[i].value)], sSpacePlusSpace)
                  \o sCloseParen
           /\ root = SumScenario => SynthesizedFormula(card) = sSixPlusFour

(* ---- C15 ---- *)
\* C15: on the joined formula of every score list, applying the two
\* replacements twice gives the same string as applying them once.
C15_NormalizationIdempotent ==
  pc = "displayed" =>
    \A card \in ClassifiedCards :
      NormalizeParens(NormalizeParens(Join(ScoreFormula(card.drops, 0, sEquals), <<" ">>)))
        = NormalizeParens(Join(ScoreFormula(card.drops, 0, sEquals), <<" ">>))

(* ---- C16 ---- *)
\* the elements of the score list of a card classified as weight-aggregate
WeightsOf(card) ==
  {w \in 1..Len(card.drops) : HasClass(card.drops[w], sScoreweight)}

\* the blocks of a card made for the weight element w
BlocksFor(card, w) == {b \in 1..Len(card.blocks) : card.blocks[b].weight = w}

\* the cards whose score list scoreList completed without an exception:
\* every record has a description and every boost got its class
ListedCards ==
  {card \in ClassifiedCards :
     /\ \A k \in 1..Len(allDetails[card.itemId]) :
           allDetails[card.itemId][k][2] # Undefined
     /\ \A i \in 1..Len(card.drops) :
           card.drops[i].desc = sBoost => HasClass(card.drops[i], sScoreboost)}

\* C16: on every card whose summary was built, each weight-aggregate
\* element of the list has exactly one explanation block, whatever its
\* position (root, under a max with or without the maximal value, deeper).
C16_OneBlockPerWeight ==
  pc = "displayed" =>
    \A card \in ListedCards :
      card.contents =>
        \A w \in WeightsOf(card) : Cardinality(BlocksFor(card, w)) = 1

(* ---- C17 ---- *)
\* the idf or the tf of weight element w is absent or lacks its sub-values
BrokenWeight(drops, w) ==
  LET first == FirstOf(ChildrenOf(drops, w))
  IN \/ first = 0
     \/ /\ first # 0
        /\ \/ CreateIdfDetailThrows(drops, FirstOf(QuerySelectorAll(drops, first, sScoreidf)))
           \/ CreateTfDetailThrows(drops, FirstOf(QuerySelectorAll(drops, first, sScoretf)))

\* the weights scoreSummary rewrites when no max is involved: not at indent
\* 1 and not directly under a max
OuterWeights(card) ==
  {w \in WeightsOf(card) : /\ IndentChar(card.drops, w) # "1"
                            /\ ParentText(card.drops, w) # sMax}

\* C17: a card with a weight whose idf or tf is broken still has its
\* contents (title, score, formula, button) with the synthesized formula,
\* and a block for each of its other outer weights.
C17_OnlyBrokenBlockOmitted ==
  pc = "displayed" =>
    \A card \in ListedCards :
      (\E w \in OuterWeights(card) : BrokenWeight(card.drops, w)) =>
        /\ card.contents
        /\ card.formula = SynthesizedFormula(card)
        /\ \A w \in OuterWeights(card) :
              ~BrokenWeight(card.drops, w) => BlocksFor(card, w) # {}

(* ---- C18 ---- *)
\* C18: the score list a card keeps after scoreSummary returned is the list
\* scoreList built from the item's records: same elements, nesting,
\* descriptions, values and classes; every rewrite went to a copy.
C18_SummaryLeavesListUnchanged ==
  pc = "displayed" =>
    \A card \in SkuCards :
      card.drops = ScoreList(allDetails, card.itemId, <<sProductCard>>, <<>>, <<>>, {}).drops

\* a summary that rewrote the copy of a weight and the copy of the query
C18_Witness ==
  /\ pc = "displayed"
  /\ \E card \in SkuCards :
       /\ card.contents
       /\ card.blocks # <<>>
       /\ card.query # <<>>

(* ---- C19 ---- *)
\* C19: no card exists before decomposeSKU has stored the flattened records
\* of every item of the response, and a card that shows a summary has every
\* record of its item in its list, classified, and its formula is the one
\* synthesized from that complete list.
C19_FlattenedBeforeSynthesis ==
  /\ pc = "start" => SkuCards = {}
  /\ (pc # "start" \/ SkuCards # {}) =>
        \A key \in MatchedKeys(input) :
          /\ key \in DOMAIN allDetails
          /\ allDetails[key] = PreOrder(1, NodeOfKey(input, key))
  /\ pc = "displayed" =>
        \A card \in SkuCards :
          card.contents =>
            /\ Len(card.drops) = Len(DetailsOf(card.itemId))
            /\ \A k \in 1..Len(card.drops) :
                  /\ card.drops[k].desc = DescText(DetailsOf(card.itemId)[k][2])
                  /\ ClassesOf(card.drops[k]) = RoleByRules(DetailsOf(card.itemId)[k][2])
            /\ card.formula = SynthesizedFormula(card)

\* a card shows the formula of an item of at least three records
C19_Witness ==
  /\ pc = "displayed"
  /\ \E card \in SkuCards :
       /\ card.contents
       /\ Len(DetailsOf(card.itemId)) >= 3
       /\ card.formula = sSixPlusFour

(* ---- C20 ---- *)
\* the title cards on the page
TitleCards == UNION {UNION {{items[i].containers[j].cards[k] :
                               k \in {c \in 1..Len(items[i].containers[j].cards) :
                                        items[i].containers[j].cards[c].title}} :
                            j \in 1..Len(items[i].containers)} : i \in 1..Len(items)}

\* the scores of the skus of a product are all numbers
NumericScores(product) ==
  \A j \in 1..Len(product.skus) : product.skus[j].skuScore.t = "number"

\* the greatest score among the skus of a product
GreatestScore(product) ==
  CHOOSE m \in {product.skus[j].skuScore.n : j \in 1..Len(product.skus)} :
    \A j \in 1..Len(product.skus) : product.skus[j].skuScore.n <= m

\* C20: the title card of a product with at least one sku and numeric
\* scores gives the number of its skus and the greatest of their scores,
\* negative and zero scores included.
C20_CountAndMaximum ==
  pc = "displayed" =>
    \A card \in TitleCards :
      \A p \in 1..Len(allProducts) :
        (/\ allProducts[p].productId = card.itemId
         /\ allProducts[p].skus # <<>>
         /\ NumericScores(allProducts[p])) =>
          /\ card.count = Len(allProducts[p].skus)
          /\ card.max = GreatestScore(allProducts[p])

(* ---- C21 ---- *)
\* the stores after the forEach of decomposeSKU ran on the first k item keys
StoresAfter(data, k) ==
  IF k = 0 THEN EmptyStores
  ELSE DecomposeItems(EmptyStores, [data EXCEPT !.explain = SubSeq(@, 1, k)], 1)

\* the sku id and the product id decomposeSKU splits from an item key
SplitSku(key) == At(Split(key, <<"_">>), 1)
SplitProd(key) == At(Split(key, <<"_">>), 2)

\* the item at position k finds its product id already in the map
ProductPresent(data, k) ==
  /\ SetData(data, SplitProd(data.explain[k].key), SplitSku(data.explain[k].key)).found
  /\ ProductIndex(StoresAfter(data, k - 1).products, SplitProd(data.explain[k].key)) # 0

\* C21: the map decomposeSKU leaves is the one built item by item, and an
\* item whose product id is already in the map adds no product, changes no
\* product's productId, displayName, size or prodImg, and touches no sku entry
\* but its own.
C21_ProductCreatedOnce ==
  pc # "start" =>
    /\ allProducts = StoresAfter(input, Len(input.explain)).products
    /\ \A k \in 1..Len(input.explain) :
         ProductPresent(input, k) =>
           LET before == StoresAfter(input, k - 1).products
               after == StoresAfter(input, k).products
           IN /\ Len(after) = Len(before)
              /\ \A p \in 1..Len(before) :
                   /\ after[p].productId = before[p].productId
                   /\ after[p].displayName = before[p].displayName
                   /\ after[p].size = before[p].size
                   /\ after[p].prodImg = before[p].prodImg
                   /\ \A j \in 1..Len(before[p].skus) :
                        (before[p].productId # SplitProd(input.explain[k].key)
                           \/ before[p].skus[j].skuId # SplitSku(input.explain[k].key))
                          => /\ j <= Len(after[p].skus)
                             /\ after[p].skus[j] = before[p].skus[j]

\* a second item of a product found its product in the map and added its sku
C21_Witness ==
  /\ pc # "start"
  /\ \E k \in 1..Len(input.explain) : ProductPresent(input, k)
  /\ \E p \in 1..Len(allProducts) : Len(allProducts[p].skus) = 2

(* ---- C22 ---- *)
\* the files gone through whose fetch and write request both succeeded and
\* whose key no later file took
SettledFiles ==
  {j \in 1..Len(files.log) :
     /\ files.log[j].fetchOK
     /\ files.log[j].writeOK
     /\ \A l \in (j + 1)..Len(files.log) :
          files.log[l].fetchOK => FileKey(files.names[l].name) # FileKey(files.names[j].name)}

\* the item keys of a file whose product id is the product_id of a document
FileMatchedKeys(data) ==
  {key \in KeysOf(data) : At(Split(key, <<"_">>), 2) \in DocIds(data)}

\* the item key is aggregated in the products of a file
Aggregated(products, key) ==
  \E p \in 1..Len(products) :
    /\ products[p].productId = At(Split(key, <<"_">>), 2)
    /\ \E j \in 1..Len(products[p].skus) :
         products[p].skus[j].skuId = At(Split(key, <<"_">>), 1)

\* C22: for every file that was fetched and whose write request succeeded,
\* the items with a document are all aggregated and flattened, the items
\* without one are left out, and the file's details were written.
C22_UnmatchedItemOmittedFromFile ==
  \A j \in SettledFiles :
    LET key == FileKey(files.names[j].name)
        data == files.names[j].data
    IN /\ key \in DOMAIN files.products
       /\ \A item \in FileMatchedKeys(data) : Aggregated(files.products[key], item)
       /\ DOMAIN files.details[key] = FileMatchedKeys(data)
       /\ key \in DOMAIN files.detailsWritten
       /\ files.detailsWritten[key] = files.details[key]

(* ---- C23 ---- *)
\* C23: the sequence decompose.js stores for an item begins with the record
\* of the item's root node and has one record for each node of the tree.
C23_FileFlattenIncludesRoot ==
  \A j \in 1..Len(files.log) :
    (files.log[j].fetchOK /\ \A l \in (j + 1)..Len(files.log) : ~files.log[l].fetchOK) =>
      LET stored == files.details[FileKey(files.names[j].name)]
          data == files.names[j].data
      IN \A item \in DOMAIN stored :
           /\ Len(stored[item]) = NodeCount(NodeOfKey(data, item))
           /\ stored[item] # <<>>
           /\ stored[item][1][2] = NodeOfKey(data, item).description
           /\ stored[item][1][3] = NodeOfKey(data, item).value

(* ---- C30 ---- *)
\* every request for a file and every write request of details succeeded
AllRequestsSucceeded ==
  \A j \in 1..Len(files.log) : files.log[j].fetchOK /\ files.log[j].writeOK

\* the item keys of the skus of the products of one file
ItemKeysOf(products) ==
  UNION {{products[p].skus[j].skuId \o <<"_">> \o products[p].productId :
            j \in 1..Len(products[p].skus)} : p \in 1..Len(products)}

\* C30: writeProducts is requested once and only after every listed file
\* was gone through, and when no request failed, every file key of the
\* product map written has its details written, with the records of each
\* item the map lists.
C30_ProductsConsistentWithDetails ==
  /\ files.requests <= 1
  /\ files.requests = 1 => Len(files.log) = Len(files.names)
  /\ (files.pc = "done" /\ files.i > 0) => files.requests = 1
  /\ AllRequestsSucceeded =>
       \A k \in 1..Len(files.productsWritten) :
         \A key \in DOMAIN files.productsWritten[k] :
           /\ key \in DOMAIN files.detailsWritten
           /\ ItemKeysOf(files.productsWritten[k][key])
                \subseteq DOMAIN files.detailsWritten[key]

(* ---- C24 ---- *)
RECURSIVE ParentIndices(_, _, _)
RECURSIVE ParentIndicesAll(_, _, _)
\* for each node of a tree in pre-order, the pre-order position of its
\* parent; me is the position of the root of the tree, parent that of its
\* parent (0 above the root of the whole tree)
ParentIndices(node, me, parent) ==
  <<parent>> \o ParentIndicesAll(node.details, me + 1, me)
ParentIndicesAll(nodes, next, parent) ==
  IF nodes = <<>> THEN <<>>
  ELSE ParentIndices(Head(nodes), next, parent)
       \o ParentIndicesAll(Tail(nodes), next + NodeCount(Head(nodes)), parent)

\* the sku cards of the items of the response that have their records stored
StoredCards ==
  {card \in SkuCards : card.itemId \in KeysOf(input) /\ card.itemId \in DOMAIN allDetails}

\* C24: the nested list of a card has one element for each node of the
\* item's tree, in pre-order, each the child of the element of its tree
\* parent (the root under the list container), with the node's description
\* and value.
C24_FlattenRebuildRoundTrip ==
  pc = "displayed" =>
    \A card \in StoredCards :
      LET tree == NodeOfKey(input, card.itemId)
          parents == ParentIndices(tree, 1, 0)
          nodes == PreOrder(1, tree)
      IN /\ Len(card.drops) = NodeCount(tree)
         /\ \A k \in 1..Len(card.drops) :
              /\ card.drops[k].parent = parents[k]
              /\ card.drops[k].desc = DescText(nodes[k][2])
              /\ card.drops[k].val = ValueText(nodes[k][3])

(* ---- C25 ---- *)
\* the decks of the page that carry the class spread
SpreadDecks == {sc \in Containers(items) :
                  HasToken(items[sc[1]].containers[sc[2]].classList, sSpread)}

\* C25: after any sequence of clicks on title cards at most one deck is
\* spread, each of a deck's two spacers is spread exactly when the deck is,
\* and the click on the title card of the spread deck leaves no deck spread
C25_OneDeckSpread ==
  /\ Cardinality(SpreadDecks) <= 1
  /\ \A sc \in Containers(items) :
       LET c == items[sc[1]].containers[sc[2]]
       IN /\ HasToken(c.previousSibling, sSpread) <=> HasToken(c.classList, sSpread)
          /\ HasToken(c.nextSibling, sSpread) <=> HasToken(c.classList, sSpread)
  /\ deck.section # <<0, 0>> =>
       IF deck.wasSpread THEN SpreadDecks = {} ELSE SpreadDecks = {deck.section}

\* a deck was collapsed by the click on its own title card while the page
\* holds other decks
C25_Witness ==
  /\ deck.section # <<0, 0>>
  /\ deck.wasSpread
  /\ Cardinality(Containers(items)) >= 3
  /\ SpreadDecks = {}

(* ---- C26 ---- *)
\* C26: after a token request answered with expires_in = E seconds the next
\* refresh is scheduled at a delay that is positive and less than E seconds:
\* E - 10 seconds when E > 15, otherwise E - 2 seconds
C26_RefreshBeforeExpiry ==
  (auth.last.ok /\ auth.last.expires_in.t = "number") =>
     LET E == auth.last.expires_in.n
     IN /\ auth.last.delay > 0
        /\ auth.last.delay < E * 1000
        /\ auth.last.delay = (IF E > 15 THEN E - 10 ELSE E - 2) * 1000

(* ---- C27 ---- *)
\* C27: at any time at most one token-refresh timer is pending
C27_OneTimerPending == Len(auth.timers) <= 1

(* ---- C28 ---- *)
\* the containers and the cards of the page that carry hide-boost
HiddenContainers(its) ==
  {sc \in Containers(its) : HasToken(its[sc[1]].containers[sc[2]].classList, sHideBoost)}
HiddenCards(its) ==
  {<<sc, k>> \in UNION {{<<c, n>> : n \in 1..Len(its[c[1]].containers[c[2]].cards)} :
                         c \in Containers(its)} :
     HasToken(its[sc[1]].containers[sc[2]].cards[k].classList, sHideBoost)}

\* C28: after unfilterCards no card or container carries hide-boost, no
\* boost checkbox is checked and no radio is checked, whether or not a radio
\* was checked when it was called
C28_UnfilterClearsAll ==
  filter.last.op = "unfilter" =>
     /\ HiddenContainers(items) = {}
     /\ HiddenCards(items) = {}
     /\ filter.checked = {}
     /\ filter.radio = "none"

(* ---- C29 ---- *)
\* the orders in which the boosts of S can be processed
Orders(S) == {q \in SeqsNoRepeat(S, Cardinality(S)) : Len(q) = Cardinality(S)}

\* C29: in include mode the containers hidden by filterCards are the same
\* for every order in which the checked boosts are processed
C29_IncludeOrderIndependent ==
  (pc = "displayed" /\ filter.radio = "include" /\ Cardinality(filter.checked) >= 2) =>
     \A p \in Orders(filter.checked) :
        HiddenContainers(IncludeLoop(items, p))
          = HiddenContainers(FilterCards(items, "include",
                                         CheckedFilters(checklist, filter.checked)))
====
